---------------------------- MODULE Spec2Model ----------------------------
(***************************************************************************)
(* Model of the alphalite wallet layer: CoinManager token selection,       *)
(* TokenSplitter burn-then-mint protocol, AlphaClient orchestration        *)
(* (mint / send / sendAmount / receive / receiveAmount) and the Wallet     *)
(* token store.                                                            *)
(***************************************************************************)
EXTENDS Integers, Sequences, FiniteSets, TLC

VARIABLES
    wallets,    \* Wallet.tokens of every wallet: [Wallets -> Seq(TokenEntry)]
    op,         \* the client operation in progress, or the last one finished
    sp,         \* the TokenSplitter invocation of the operation in progress
    log,        \* call order of the current operation, as a recording double sees it
    ledger,     \* what the aggregator has accepted and confirmed
    outbox,     \* payloads returned to callers by completed sends
    nextId,     \* source of fresh token ids and salts (generateRandom32)
    opCount,    \* number of client operations started so far
    trustBase,  \* AlphaClient.trustBase is configured
    identityStore, \* Wallet.identities (in insertion order) and
                \* Wallet.defaultIdentityId of every wallet
    suspended   \* op, sp and log of a second call on the same client that is
                \* suspended at an await while the one in op runs

vars == <<wallets, op, sp, log, ledger, outbox, nextId, opCount, trustBase,
          identityStore, suspended>>

----------------------------------------------------------------------------
(* Bounds of the model *)

MaxSelTokens == 3      \* entries in a wallet handed to the selector
MaxSelBalance == 4     \* largest ALPHA balance of such an entry
MaxOps == 4            \* client operations per behaviour
MaxIds == 5            \* token ids that can be generated per behaviour
MaxIdentities == 3     \* identities that exist in all wallets together

----------------------------------------------------------------------------
(* Data *)

Wallets == {"A", "B"}
Coins == {"ALPHA", "BETA"}

\* JS undefined for the optional splitAmount / changeAmount / identityId
Undefined == -1
NoId == "undefined"
NoError == "ok"

\* Identity.id of the identity Wallet.create puts into a wallet, and its key
IdentityOf(w) == w
PublicKey(identityId) == identityId

\* UnmaskedPredicateReference(tokenType, publicKey).toAddress(): the address
\* is a function of the public key (one token type is modelled)
AddressOf(publicKey) == <<"DIRECT", publicKey>>

NoCoins == [c \in Coins |-> 0]
CoinData(coin, amount) == [NoCoins EXCEPT ![coin] = amount]

\* Wallet.TokenEntry with the fields of the wrapped token that the client reads:
\* id, coin balances and the recipient address declared by its latest transaction
TokenEntry(id, coins, recipient, identityId, salt) ==
    [id |-> id, coins |-> coins, recipient |-> recipient,
     identityId |-> identityId, salt |-> salt]

RECURSIVE SumSeq(_)
SumSeq(s) == IF s = <<>> THEN 0 ELSE Head(s) + SumSeq(Tail(s))

----------------------------------------------------------------------------
(* SimpleToken / Wallet queries *)

getCoinBalance(entry, coin) == entry.coins[coin]

listTokensForIdentity(tokens, identityId) ==
    SelectSeq(tokens, LAMBDA e : e.identityId = identityId)

BalanceOf(tokens, coin) ==
    SumSeq([i \in 1..Len(tokens) |-> getCoinBalance(tokens[i], coin)])

----------------------------------------------------------------------------
(* CoinManager *)

NullSel == [tokens |-> <<>>, totalAmount |-> 0, requiresSplit |-> FALSE,
            splitAmount |-> Undefined, changeAmount |-> Undefined]

Selection(tokens, total, split, splitAmount, changeAmount) ==
    [tokens |-> tokens, totalAmount |-> total, requiresSplit |-> split,
     splitAmount |-> splitAmount, changeAmount |-> changeAmount]

Entries(twb) == [i \in 1..Len(twb) |-> twb[i].entry]
Balances(twb) == [i \in 1..Len(twb) |-> twb[i].balance]

\* the entries without a balance of the coin not filtered out
getTokensWithBalance_unfiltered(tokens, coin, identityId) ==
    LET entries == IF identityId # NoId
                   THEN listTokensForIdentity(tokens, identityId)
                   ELSE tokens
    IN  [i \in 1..Len(entries) |->
            [entry |-> entries[i], balance |-> getCoinBalance(entries[i], coin)]]

getTokensWithBalance(tokens, coin, identityId) ==
    LET entries == IF identityId # NoId
                   THEN listTokensForIdentity(tokens, identityId)
                   ELSE tokens
        withBal == SelectSeq(entries, LAMBDA e : getCoinBalance(e, coin) > 0)
    IN  [i \in 1..Len(withBal) |->
            [entry |-> withBal[i], balance |-> getCoinBalance(withBal[i], coin)]]

\* Array.prototype.sort with the ascending comparator: stable insertion
RECURSIVE InsertSorted(_, _)
InsertSorted(sorted, t) ==
    IF sorted = <<>> THEN <<t>>
    ELSE IF Head(sorted).balance <= t.balance
         THEN <<Head(sorted)>> \o InsertSorted(Tail(sorted), t)
         ELSE <<t>> \o sorted

RECURSIVE SortAscending(_)
SortAscending(s) ==
    IF s = <<>> THEN <<>>
    ELSE InsertSorted(SortAscending(SubSeq(s, 1, Len(s) - 1)), s[Len(s)])

\* Array.prototype.find: index of the first element satisfying P, 0 if none
FindFirst(s, P(_)) ==
    IF \E i \in 1..Len(s) : P(s[i])
    THEN CHOOSE i \in 1..Len(s) : P(s[i]) /\ \A j \in 1..(i - 1) : ~P(s[j])
    ELSE 0

\* The for-loop of tryConsumeSmallTokens from position i on, with the
\* running `accumulated` and `consumed`; NullSel stands for the null return
RECURSIVE ConsumeLoop(_, _, _, _, _, _)
ConsumeLoop(smaller, i, accumulated, consumed, amount, ss) ==
    IF i > Len(smaller)
    THEN LET remaining == amount - accumulated
         IN  IF remaining > 0 /\ remaining < ss.balance
             THEN Selection(Entries(consumed) \o <<ss.entry>>,
                            accumulated + ss.balance, TRUE,
                            remaining, ss.balance - remaining)
             ELSE NullSel
    ELSE LET token == smaller[i]
             acc1 == accumulated + token.balance
             cons1 == Append(consumed, token)
         IN  IF acc1 = amount
             THEN Selection(Entries(cons1), amount, FALSE, Undefined, Undefined)
             ELSE IF acc1 > amount
                  THEN LET remaining == amount - accumulated
                       IN  IF remaining > 0 /\ remaining < ss.balance
                           THEN Selection(Entries(consumed) \o <<ss.entry>>,
                                          accumulated + ss.balance, TRUE,
                                          remaining, ss.balance - remaining)
                           ELSE ConsumeLoop(smaller, i + 1, acc1, cons1, amount, ss)
                  ELSE ConsumeLoop(smaller, i + 1, acc1, cons1, amount, ss)

\* the smaller entries never looked at: the smallest sufficient entry is split
tryConsumeSmallTokens_skipped(sortedTokens, amount, smallestSufficient) == NullSel

\* the smaller entries used only when they sum exactly to the amount
tryConsumeSmallTokens_exactOnly(sortedTokens, amount, smallestSufficient) ==
    LET smallerTokens ==
            SelectSeq(sortedTokens, LAMBDA t : t.balance < smallestSufficient.balance)
        r == ConsumeLoop(smallerTokens, 1, 0, <<>>, amount, smallestSufficient)
    IN  IF Len(smallerTokens) = 0 \/ r.requiresSplit THEN NullSel ELSE r

tryConsumeSmallTokens(sortedTokens, amount, smallestSufficient) ==
    LET smallerTokens ==
            SelectSeq(sortedTokens, LAMBDA t : t.balance < smallestSufficient.balance)
    IN  IF Len(smallerTokens) = 0
        THEN NullSel
        ELSE ConsumeLoop(smallerTokens, 1, 0, <<>>, amount, smallestSufficient)

\* The for-loop of selectMultipleTokens from position i on
RECURSIVE MultiLoop(_, _, _, _)
MultiLoop(sortedTokens, i, accumulated, amount) ==
    IF i > Len(sortedTokens)
    THEN [error |-> "Unexpected: could not select sufficient tokens", sel |-> NullSel]
    ELSE LET token == sortedTokens[i]
             acc1 == accumulated + token.balance
             selected == SubSeq(sortedTokens, 1, i)
         IN  IF acc1 = amount
             THEN [error |-> NoError,
                   sel |-> Selection(Entries(selected), amount, FALSE,
                                     Undefined, Undefined)]
             ELSE IF acc1 > amount
                  THEN LET neededFromLast == amount - (acc1 - token.balance)
                       IN  [error |-> NoError,
                            sel |-> Selection(Entries(selected), acc1, TRUE,
                                              neededFromLast,
                                              token.balance - neededFromLast)]
                  ELSE MultiLoop(sortedTokens, i + 1, acc1, amount)

\* neededFromLast taken to be the overshoot instead of the missing amount
selectMultipleTokens_overshoot(sortedTokens, amount) ==
    LET r == MultiLoop(sortedTokens, 1, 0, amount)
        last == r.sel.tokens[Len(r.sel.tokens)]
    IN  IF r.error = NoError /\ r.sel.requiresSplit
        THEN [r EXCEPT !.sel.splitAmount = r.sel.totalAmount - amount,
                       !.sel.changeAmount = r.sel.splitAmount]
        ELSE r

\* the entries accumulated from the largest down
selectMultipleTokens_descending(sortedTokens, amount) ==
    MultiLoop([i \in 1..Len(sortedTokens) |->
                  sortedTokens[Len(sortedTokens) + 1 - i]], 1, 0, amount)

selectMultipleTokens(sortedTokens, amount) ==
    MultiLoop(sortedTokens, 1, 0, amount)

\* the exact-match step left out
findExactMatch_skipped(sorted, amount) == 0

\* sorted.find((t) => t.balance === amount)
findExactMatch(sorted, amount) == FindFirst(sorted, LAMBDA t : t.balance = amount)

\* sorted.find((t) => t.balance >= amount)
findSmallestSufficient(sorted, amount) ==
    FindFirst(sorted, LAMBDA t : t.balance >= amount)

\* the comparison of the total balance with the amount left out
selectTokensForAmount_noTotalCheck(tokens, coin, amount, identityId) ==
    LET sorted == SortAscending(getTokensWithBalance(tokens, coin, identityId))
        exactMatch == findExactMatch(sorted, amount)
        sufficient == findSmallestSufficient(sorted, amount)
    IN  IF amount <= 0
        THEN [error |-> "Amount must be positive", sel |-> NullSel]
        ELSE IF Len(sorted) = 0
        THEN [error |-> "No tokens with balance", sel |-> NullSel]
        ELSE IF exactMatch # 0
        THEN [error |-> NoError,
              sel |-> Selection(<<sorted[exactMatch].entry>>, amount, FALSE,
                                Undefined, Undefined)]
        ELSE IF sufficient # 0
        THEN LET smallestSufficient == sorted[sufficient]
                 consumeSmallResult ==
                     tryConsumeSmallTokens(sorted, amount, smallestSufficient)
             IN  IF consumeSmallResult # NullSel
                 THEN [error |-> NoError, sel |-> consumeSmallResult]
                 ELSE [error |-> NoError,
                       sel |-> Selection(<<smallestSufficient.entry>>,
                                         smallestSufficient.balance, TRUE, amount,
                                         smallestSufficient.balance - amount)]
        ELSE selectMultipleTokens(sorted, amount)

selectTokensForAmount(tokens, coin, amount, identityId) ==
    IF amount <= 0
    THEN [error |-> "Amount must be positive", sel |-> NullSel]
    ELSE
    LET tokensWithBalance == getTokensWithBalance(tokens, coin, identityId)
        totalBalance == SumSeq(Balances(tokensWithBalance))
        sorted == SortAscending(tokensWithBalance)
        exactMatch == findExactMatch(sorted, amount)
        sufficient == findSmallestSufficient(sorted, amount)
    IN  IF Len(tokensWithBalance) = 0
        THEN [error |-> "No tokens with balance", sel |-> NullSel]
        ELSE IF totalBalance < amount
        THEN [error |-> "Insufficient balance", sel |-> NullSel,
              have |-> totalBalance, need |-> amount]
        ELSE IF exactMatch # 0
        THEN [error |-> NoError,
              sel |-> Selection(<<sorted[exactMatch].entry>>, amount, FALSE,
                                Undefined, Undefined)]
        ELSE IF sufficient # 0
        THEN LET smallestSufficient == sorted[sufficient]
                 consumeSmallResult ==
                     tryConsumeSmallTokens(sorted, amount, smallestSufficient)
             IN  IF consumeSmallResult # NullSel
                 THEN [error |-> NoError, sel |-> consumeSmallResult]
                 ELSE [error |-> NoError,
                       sel |-> Selection(<<smallestSufficient.entry>>,
                                         smallestSufficient.balance, TRUE, amount,
                                         smallestSufficient.balance - amount)]
        ELSE selectMultipleTokens(sorted, amount)

\* the have / need amounts that the insufficient-balance message carries
ErrorDetail(r) ==
    IF r.error = "Insufficient balance" THEN <<r.have, r.need>> ELSE <<>>

----------------------------------------------------------------------------
(* Wallet token store *)

\* The identities of a wallet made by Wallet.create
\* the wallet as the private constructor leaves it, and as Wallet.create
\* returns it: one fresh identity, which is the default
NoIdentities == [identities |-> <<>>, defaultIdentityId |-> ""]
Created(w) == [identities |-> <<IdentityOf(w)>>,
               defaultIdentityId |-> IdentityOf(w)]

IdsOf(store) == {store.identities[i] : i \in 1..Len(store.identities)}

Identities(w) == IdsOf(identityStore[w])
defaultIdentityId(w) == identityStore[w].defaultIdentityId

getIdentity(w, identityId) ==
    IF identityId \in Identities(w) THEN identityId ELSE NoId

\* options.identityId ? wallet.getIdentity(id) : wallet.getDefaultIdentity()
ResolveIdentity(w, optIdentityId) ==
    IF optIdentityId # NoId THEN getIdentity(w, optIdentityId)
    ELSE getIdentity(w, defaultIdentityId(w))

hasToken(tokens, tokenId) == \E i \in 1..Len(tokens) : tokens[i].id = tokenId

\* Wallet.getToken: index of the first entry with that id, 0 if none
getToken(tokens, tokenId) == FindFirst(tokens, LAMBDA e : e.id = tokenId)

\* Wallet.addToken: throws (no change) for an identity the wallet lacks
addToken(w, tokens, entry) ==
    IF entry.identityId \notin Identities(w) THEN tokens ELSE Append(tokens, entry)

removeToken(tokens, tokenId) ==
    LET index == getToken(tokens, tokenId)
    IN  IF index = 0 THEN tokens
        ELSE SubSeq(tokens, 1, index - 1) \o SubSeq(tokens, index + 1, Len(tokens))

\* The state of a token that a transfer or burn commitment spends
StateOf(entry) == <<entry.id, entry.salt>>

----------------------------------------------------------------------------
(* Records of the client and of the splitter *)

NoEntry == TokenEntry(0, NoCoins, AddressOf(NoId), NoId, 0)
NoTx == [tokenId |-> 0, coins |-> NoCoins, recipient |-> AddressOf(NoId)]
NoMsg == [type |-> "none", payloads |-> <<>>, tx |-> NoTx, salt |-> 0,
          amount |-> 0, coinId |-> "ALPHA"]

\* ISendAmountResult
NoResult == [sent |-> 0, tokensUsed |-> 0, splitPerformed |-> FALSE,
             recipientPayload |-> NoMsg]

NoOp == [kind |-> "none", pc |-> "idle", wallet |-> "A", identityId |-> NoId,
         optIdentityId |-> NoId,
         coin |-> "ALPHA", amount |-> 0, recipientKey |-> NoId,
         selection |-> NullSel, idx |-> 0, payloads |-> <<>>, totalSent |-> 0,
         error |-> NoError, detail |-> <<>>, trustBaseAtStart |-> FALSE,
         input |-> NoMsg,
         entry |-> NoEntry, salt |-> 0, received |-> <<>>,
         walletAtStart |-> <<>>, result |-> NoResult,
         identitiesAtStart |-> NoIdentities]

NoSplit == [kind |-> "none", state |-> "none", token |-> NoEntry, amount |-> 0,
            changeAmount |-> 0, recipientTokenId |-> 0, changeTokenId |-> 0,
            mintIdx |-> 0, nMints |-> 0, walletAtStart |-> <<>>]

Event(ev, token, out) == [ev |-> ev, token |-> token, out |-> out]

Finished == op.pc \in {"idle", "done", "failed"}

\* no second call
NoCall == [op |-> NoOp, sp |-> NoSplit, log |-> <<>>]

CanStart == Finished /\ opCount < MaxOps

Failed(o, error) == [o EXCEPT !.pc = "failed", !.error = error]

\* IRecipientPayload of TokenSplitter and the multi_split envelope of sendAmount
SplitMintPayload(tokenId, coins, recipient, salt, amount, coin) ==
    [type |-> "split_mint", payloads |-> <<>>,
     tx |-> [tokenId |-> tokenId, coins |-> coins, recipient |-> recipient],
     salt |-> salt, amount |-> amount, coinId |-> coin]

MultiSplitPayload(payloads, totalAmount, coin) ==
    [type |-> "multi_split", payloads |-> payloads, tx |-> NoTx, salt |-> 0,
     amount |-> totalAmount, coinId |-> coin]

\* ISendResult of send: the token as the sender held it and the transfer
TransferMessage(entry, recipient, salt) ==
    [type |-> "transfer", payloads |-> <<>>,
     tx |-> [tokenId |-> entry.id, coins |-> entry.coins, recipient |-> recipient],
     salt |-> salt, amount |-> 0, coinId |-> "ALPHA"]

----------------------------------------------------------------------------
(* Initial state: wallets made by Wallet.create, a client just constructed *)

Init ==
    /\ wallets = [w \in Wallets |-> <<>>]
    /\ op = NoOp
    /\ sp = NoSplit
    /\ log = <<>>
    /\ ledger = [burnAccepted |-> {}, burnConfirmed |-> {}, minted |-> {}]
    /\ outbox = {}
    /\ nextId = 1
    /\ opCount = 0
    /\ trustBase \in BOOLEAN
    /\ identityStore = [w \in Wallets |-> Created(w)]
    /\ suspended = NoCall

\* AlphaClient.setTrustBase
SetTrustBase ==
    /\ UNCHANGED <<identityStore, suspended>>
    /\ Finished
    /\ ~trustBase
    /\ trustBase' = TRUE
    /\ UNCHANGED <<wallets, op, sp, log, ledger, outbox, nextId, opCount>>

\* new AlphaClient(config) with no trustBase in the config: the host goes on
\* with a client just constructed, on the same wallets
NewClient ==
    /\ UNCHANGED <<identityStore, suspended>>
    /\ Finished
    /\ trustBase
    /\ trustBase' = FALSE
    /\ UNCHANGED <<wallets, op, sp, log, ledger, outbox, nextId, opCount>>

\* What the aggregator requires to accept a commitment spending `entry`,
\* signed by the signing service of `signer`
LedgerCanAccept(entry, signer) ==
    /\ StateOf(entry) \notin ledger.burnAccepted
    /\ signer = entry.identityId
    /\ AddressOf(PublicKey(entry.identityId)) = entry.recipient

----------------------------------------------------------------------------
(* AlphaClient.mint *)

MintChoices ==
    {CoinData("ALPHA", 2), [ALPHA |-> 1, BETA |-> 1]}

MintStart(w, coins) ==
    /\ UNCHANGED <<identityStore, suspended>>
    /\ CanStart
    /\ nextId <= MaxIds
    /\ opCount' = opCount + 1
    /\ sp' = NoSplit
    /\ LET o == [NoOp EXCEPT !.kind = "mint", !.wallet = w,
                             !.trustBaseAtStart = trustBase,
                             !.walletAtStart = wallets[w]]
           identity == ResolveIdentity(w, NoId)
       IN  IF ~trustBase
           THEN /\ op' = Failed(o, "Trust base not configured")
                /\ log' = <<>>
                /\ UNCHANGED nextId
           ELSE /\ op' = [o EXCEPT !.pc = "mint_resp", !.identityId = identity,
                              !.entry = TokenEntry(nextId, coins,
                                            AddressOf(PublicKey(identity)),
                                            identity, nextId)]
                /\ log' = <<Event("mint_submit", 0, nextId)>>
                /\ nextId' = nextId + 1
    /\ UNCHANGED <<wallets, ledger, outbox, trustBase>>

MintResponse ==
    /\ UNCHANGED <<identityStore, suspended>>
    /\ op.kind = "mint" /\ op.pc = "mint_resp"
    /\ \E status \in {"SUCCESS", "REJECTED"} :
          op' = IF status = "SUCCESS"
                THEN [op EXCEPT !.pc = "mint_wait"]
                ELSE Failed(op, "Mint submission failed")
    /\ UNCHANGED <<wallets, sp, log, ledger, outbox, nextId, opCount, trustBase>>

\* the mint commitment submitted again when the wait for its proof times out
MintProof_resubmits ==
    /\ UNCHANGED <<identityStore, suspended>>
    /\ op.kind = "mint" /\ op.pc = "mint_wait"
    /\ \E proof \in BOOLEAN :
          IF proof
          THEN /\ ledger' = [ledger EXCEPT !.minted = @ \cup {op.entry.id}]
               /\ wallets' = [wallets EXCEPT ![op.wallet] = addToken(op.wallet, @, op.entry)]
               /\ log' = log \o <<Event("mint_proof", 0, op.entry.id),
                                  Event("token_added", op.entry.id, 0)>>
               /\ op' = [op EXCEPT !.pc = "mint_notify"]
          ELSE /\ op' = [op EXCEPT !.pc = "mint_resp"]
               /\ UNCHANGED <<ledger, wallets, log>>
    /\ UNCHANGED <<sp, outbox, nextId, opCount, trustBase>>

MintProof ==
    /\ UNCHANGED <<identityStore, suspended>>
    /\ op.kind = "mint" /\ op.pc = "mint_wait"
    /\ \E proof \in BOOLEAN :
          IF proof
          THEN /\ ledger' = [ledger EXCEPT !.minted = @ \cup {op.entry.id}]
               /\ wallets' = [wallets EXCEPT ![op.wallet] = addToken(op.wallet, @, op.entry)]
               /\ log' = log \o <<Event("mint_proof", 0, op.entry.id),
                                  Event("token_added", op.entry.id, 0)>>
               /\ op' = [op EXCEPT !.pc = "mint_notify"]
          ELSE /\ op' = Failed(op, "TimeoutError")
               /\ UNCHANGED <<ledger, wallets, log>>
    /\ UNCHANGED <<sp, outbox, nextId, opCount, trustBase>>

MintNotified ==
    /\ UNCHANGED <<identityStore, suspended>>
    /\ op.kind = "mint" /\ op.pc = "mint_notify"
    /\ \E ok \in BOOLEAN :
          op' = IF ok THEN [op EXCEPT !.pc = "done"]
                ELSE Failed(op, "State change callback failed")
    /\ UNCHANGED <<wallets, sp, log, ledger, outbox, nextId, opCount, trustBase>>

\* Wallet.addToken called by the host with a token it already holds
AddTokenCall(w, i) ==
    /\ UNCHANGED <<identityStore, suspended>>
    /\ CanStart
    /\ i \in 1..Len(wallets[w])
    /\ opCount' = opCount + 1
    /\ LET e == wallets[w][i]
       IN  /\ wallets' = [wallets EXCEPT ![w] = addToken(w, @, e)]
           /\ op' = [NoOp EXCEPT !.kind = "addToken", !.pc = "done", !.wallet = w,
                                 !.entry = e, !.walletAtStart = wallets[w]]
    /\ sp' = NoSplit
    /\ log' = <<>>
    /\ UNCHANGED <<ledger, outbox, nextId, trustBase>>

----------------------------------------------------------------------------
(* AlphaClient.sendAmount driving TokenSplitter.split / splitExact *)

SendAmounts == -1..3

\* ids that the splitter invocations of a selection generate
IdsNeeded(sel) == Len(sel.tokens) + (IF sel.requiresSplit THEN 1 ELSE 0)

\* the selection walked from its last entry to its first
EnterToken_reversed(o, lg, i) ==
    LET entry == o.selection.tokens[Len(o.selection.tokens) - i + 1]
        useSplit == i = Len(o.selection.tokens) /\ o.selection.requiresSplit
        tokenBalance == getCoinBalance(entry, o.coin)
        amount == IF useSplit THEN o.selection.splitAmount ELSE tokenBalance
        changeAmount == tokenBalance - amount
        error == IF useSplit
                 THEN IF changeAmount < 0 THEN "Insufficient balance"
                      ELSE IF changeAmount = 0
                           THEN "Use splitExact() when sending the full balance"
                           ELSE NoError
                 ELSE IF amount = 0 THEN "Token has no balance for this coin ID"
                      ELSE NoError
    IN  IF error # NoError
        THEN /\ op' = Failed([o EXCEPT !.idx = i], error)
             /\ sp' = NoSplit
             /\ log' = lg
             /\ UNCHANGED nextId
        ELSE /\ op' = [o EXCEPT !.pc = "burn_resp", !.idx = i]
             /\ sp' = [kind |-> IF useSplit THEN "split" ELSE "splitExact",
                       state |-> "BurnSubmitted",
                       token |-> entry, amount |-> amount,
                       changeAmount |-> changeAmount,
                       recipientTokenId |-> nextId,
                       changeTokenId |-> IF useSplit THEN nextId + 1 ELSE 0,
                       mintIdx |-> 0,
                       nMints |-> IF useSplit THEN 2 ELSE 1,
                       walletAtStart |-> wallets'[o.wallet]]
             /\ nextId' = nextId + (IF useSplit THEN 2 ELSE 1)
             /\ log' = Append(lg, Event("burn_submit", entry.id, 0))

\* sendAmount reaches token i of its selection: the TokenSplitter is built
\* and runs up to the submission of its burn commitment
EnterToken(o, lg, i) ==
    LET entry == o.selection.tokens[i]
        useSplit == i = Len(o.selection.tokens) /\ o.selection.requiresSplit
        tokenBalance == getCoinBalance(entry, o.coin)
        amount == IF useSplit THEN o.selection.splitAmount ELSE tokenBalance
        changeAmount == tokenBalance - amount
        error == IF useSplit
                 THEN IF changeAmount < 0 THEN "Insufficient balance"
                      ELSE IF changeAmount = 0
                           THEN "Use splitExact() when sending the full balance"
                           ELSE NoError
                 ELSE IF amount = 0 THEN "Token has no balance for this coin ID"
                      ELSE NoError
    IN  IF error # NoError
        THEN /\ op' = Failed([o EXCEPT !.idx = i], error)
             /\ sp' = NoSplit
             /\ log' = lg
             /\ UNCHANGED nextId
        ELSE /\ op' = [o EXCEPT !.pc = "burn_resp", !.idx = i]
             /\ sp' = [kind |-> IF useSplit THEN "split" ELSE "splitExact",
                       state |-> "BurnSubmitted",
                       token |-> entry, amount |-> amount,
                       changeAmount |-> changeAmount,
                       recipientTokenId |-> nextId,
                       changeTokenId |-> IF useSplit THEN nextId + 1 ELSE 0,
                       mintIdx |-> 0,
                       nMints |-> IF useSplit THEN 2 ELSE 1,
                       walletAtStart |-> wallets'[o.wallet]]
             /\ nextId' = nextId + (IF useSplit THEN 2 ELSE 1)
             /\ log' = Append(lg, Event("burn_submit", entry.id, 0))

\* sendAmount without its own validation of the amount
SendAmountStart_noAmountCheck(w, coin, amount, recipientKey, optIdentityId) ==
    /\ UNCHANGED <<identityStore, suspended>>
    /\ CanStart
    /\ opCount' = opCount + 1
    /\ LET o == [NoOp EXCEPT !.kind = "sendAmount", !.wallet = w, !.coin = coin,
                             !.amount = amount, !.recipientKey = recipientKey,
                             !.optIdentityId = optIdentityId,
                             !.trustBaseAtStart = trustBase,
                             !.walletAtStart = wallets[w]]
           identity == ResolveIdentity(w, optIdentityId)
           r == selectTokensForAmount(wallets[w], coin, amount, optIdentityId)
           fail == IF ~trustBase THEN "Trust base not configured"
                   ELSE IF identity = NoId THEN "Identity not found"
                   ELSE r.error
       IN  /\ wallets' = wallets
           /\ IF fail # NoError
              THEN /\ op' = [Failed(o, fail) EXCEPT !.detail =
                              IF fail = r.error THEN ErrorDetail(r) ELSE <<>>]
                   /\ sp' = NoSplit
                   /\ log' = <<>>
                   /\ UNCHANGED nextId
              ELSE /\ nextId + IdsNeeded(r.sel) - 1 <= MaxIds
                   /\ EnterToken([o EXCEPT !.identityId = identity,
                                           !.selection = r.sel], <<>>, 1)
    /\ UNCHANGED <<ledger, outbox, trustBase>>

\* a sendAmount refused while another call on the client is in progress
SendAmountStart_exclusive(w, coin, amount, recipientKey, optIdentityId) ==
    /\ UNCHANGED <<identityStore, suspended>>
    /\ CanStart
    /\ suspended.op.pc \in {"idle", "done", "failed"}
    /\ opCount' = opCount + 1
    /\ LET o == [NoOp EXCEPT !.kind = "sendAmount", !.wallet = w, !.coin = coin,
                             !.amount = amount, !.recipientKey = recipientKey,
                             !.optIdentityId = optIdentityId,
                             !.trustBaseAtStart = trustBase,
                             !.walletAtStart = wallets[w]]
           identity == ResolveIdentity(w, optIdentityId)
           r == selectTokensForAmount(wallets[w], coin, amount, optIdentityId)
           fail == IF ~trustBase THEN "Trust base not configured"
                   ELSE IF amount <= 0 THEN "Amount must be positive"
                   ELSE IF identity = NoId THEN "Identity not found"
                   ELSE r.error
       IN  /\ wallets' = wallets
           /\ IF fail # NoError
              THEN /\ op' = [Failed(o, fail) EXCEPT !.detail =
                              IF fail = r.error THEN ErrorDetail(r) ELSE <<>>]
                   /\ sp' = NoSplit
                   /\ log' = <<>>
                   /\ UNCHANGED nextId
              ELSE /\ nextId + IdsNeeded(r.sel) - 1 <= MaxIds
                   /\ EnterToken([o EXCEPT !.identityId = identity,
                                           !.selection = r.sel], <<>>, 1)
    /\ UNCHANGED <<ledger, outbox, trustBase>>

SendAmountStart(w, coin, amount, recipientKey, optIdentityId) ==
    /\ UNCHANGED <<identityStore, suspended>>
    /\ CanStart
    /\ opCount' = opCount + 1
    /\ LET o == [NoOp EXCEPT !.kind = "sendAmount", !.wallet = w, !.coin = coin,
                             !.amount = amount, !.recipientKey = recipientKey,
                             !.optIdentityId = optIdentityId,
                             !.trustBaseAtStart = trustBase,
                             !.walletAtStart = wallets[w]]
           identity == ResolveIdentity(w, optIdentityId)
           r == selectTokensForAmount(wallets[w], coin, amount, optIdentityId)
           fail == IF ~trustBase THEN "Trust base not configured"
                   ELSE IF amount <= 0 THEN "Amount must be positive"
                   ELSE IF identity = NoId THEN "Identity not found"
                   ELSE r.error
       IN  /\ wallets' = wallets
           /\ IF fail # NoError
              THEN /\ op' = [Failed(o, fail) EXCEPT !.detail =
                              IF fail = r.error THEN ErrorDetail(r) ELSE <<>>]
                   /\ sp' = NoSplit
                   /\ log' = <<>>
                   /\ UNCHANGED nextId
              ELSE /\ nextId + IdsNeeded(r.sel) - 1 <= MaxIds
                   /\ EnterToken([o EXCEPT !.identityId = identity,
                                           !.selection = r.sel], <<>>, 1)
    /\ UNCHANGED <<ledger, outbox, trustBase>>

\* the onTokenBurned callback run as soon as the burn commitment is accepted
BurnResponse_callbackOnAccept ==
    /\ UNCHANGED <<identityStore, suspended>>
    /\ op.kind = "sendAmount" /\ op.pc = "burn_resp"
    /\ \E status \in {"SUCCESS", "REJECTED"} :
          /\ status = "SUCCESS" => LedgerCanAccept(sp.token, op.identityId)
          /\ IF status = "SUCCESS"
             THEN /\ ledger' = [ledger EXCEPT
                                  !.burnAccepted = @ \cup {StateOf(sp.token)}]
                  /\ wallets' = [wallets EXCEPT ![op.wallet] =
                                    removeToken(@, sp.token.id)]
                  /\ op' = [op EXCEPT !.pc = "burn_wait"]
                  /\ log' = log \o <<Event("onTokenBurned", sp.token.id, 0),
                                     Event("token_removed", sp.token.id, 0)>>
             ELSE /\ op' = Failed(op, "Burn commitment failed")
                  /\ log' = Append(log, Event("burn_rejected", sp.token.id, 0))
                  /\ UNCHANGED <<ledger, wallets>>
    /\ UNCHANGED <<sp, outbox, nextId, opCount, trustBase>>

\* the status of the burn submission not looked at
BurnResponse_ignoresStatus ==
    /\ UNCHANGED <<identityStore, suspended>>
    /\ op.kind = "sendAmount" /\ op.pc = "burn_resp"
    /\ \E status \in {"SUCCESS", "REJECTED"} :
          /\ status = "SUCCESS" => LedgerCanAccept(sp.token, op.identityId)
          /\ ledger' = IF status = "SUCCESS"
                       THEN [ledger EXCEPT
                               !.burnAccepted = @ \cup {StateOf(sp.token)}]
                       ELSE ledger
          /\ op' = [op EXCEPT !.pc = "burn_wait"]
          /\ log' = IF status = "SUCCESS" THEN log
                    ELSE Append(log, Event("burn_rejected", sp.token.id, 0))
    /\ UNCHANGED <<wallets, sp, outbox, nextId, opCount, trustBase>>

\* submitTransferCommitment(burnCommitment) answers
BurnResponse ==
    /\ UNCHANGED <<identityStore, suspended>>
    /\ op.kind = "sendAmount" /\ op.pc = "burn_resp"
    /\ \E status \in {"SUCCESS", "REJECTED"} :
          /\ status = "SUCCESS" => LedgerCanAccept(sp.token, op.identityId)
          /\ IF status = "SUCCESS"
             THEN /\ ledger' = [ledger EXCEPT
                                  !.burnAccepted = @ \cup {StateOf(sp.token)}]
                  /\ op' = [op EXCEPT !.pc = "burn_wait"]
                  /\ log' = log
             ELSE /\ op' = Failed(op, "Burn commitment failed")
                  /\ log' = Append(log, Event("burn_rejected", sp.token.id, 0))
                  /\ UNCHANGED ledger
    /\ UNCHANGED <<wallets, sp, outbox, nextId, opCount, trustBase>>

\* the burned token left in the wallet by the callback
OnBurned_keepsToken(tokens, expectedTokenId, burnedTokenId) == tokens

\* createOnBurnedCallback of sendAmount, up to the await of notifyStateChange
OnBurned(tokens, expectedTokenId, burnedTokenId) ==
    IF burnedTokenId # expectedTokenId THEN tokens
    ELSE removeToken(tokens, expectedTokenId)

\* the onTokenBurned callback run although the wait for the burn proof timed out
BurnProof_callbackOnTimeout ==
    /\ UNCHANGED <<identityStore, suspended>>
    /\ op.kind = "sendAmount" /\ op.pc = "burn_wait"
    /\ \E proof \in BOOLEAN :
          /\ wallets' = [wallets EXCEPT ![op.wallet] =
                            OnBurned(@, op.selection.tokens[op.idx].id,
                                     sp.token.id)]
          /\ IF proof
             THEN /\ ledger' = [ledger EXCEPT
                                  !.burnConfirmed = @ \cup {StateOf(sp.token)}]
                  /\ log' = log \o <<Event("burn_proof", sp.token.id, 0),
                                     Event("onTokenBurned", sp.token.id, 0),
                                     Event("token_removed", sp.token.id, 0)>>
                  /\ op' = [op EXCEPT !.pc = "burn_notify"]
                  /\ sp' = [sp EXCEPT !.state = "BurnConfirmed"]
             ELSE /\ op' = Failed(op, "TimeoutError")
                  /\ log' = log \o <<Event("onTokenBurned", sp.token.id, 0),
                                     Event("token_removed", sp.token.id, 0)>>
                  /\ UNCHANGED <<ledger, sp>>
    /\ UNCHANGED <<outbox, nextId, opCount, trustBase>>

\* waitForInclusionProof(burnCommitment) ends; on a proof the onTokenBurned
\* callback runs before anything else
BurnProof ==
    /\ UNCHANGED <<identityStore, suspended>>
    /\ op.kind = "sendAmount" /\ op.pc = "burn_wait"
    /\ \E proof \in BOOLEAN :
          IF proof
          THEN /\ ledger' = [ledger EXCEPT
                               !.burnConfirmed = @ \cup {StateOf(sp.token)}]
               /\ wallets' = [wallets EXCEPT ![op.wallet] =
                                 OnBurned(@, op.selection.tokens[op.idx].id,
                                          sp.token.id)]
               /\ log' = log \o <<Event("burn_proof", sp.token.id, 0),
                                  Event("onTokenBurned", sp.token.id, 0),
                                  Event("token_removed", sp.token.id, 0)>>
               /\ op' = [op EXCEPT !.pc = "burn_notify"]
               /\ sp' = [sp EXCEPT !.state = "BurnConfirmed"]
          ELSE /\ op' = Failed(op, "TimeoutError")
               /\ UNCHANGED <<ledger, wallets, log, sp>>
    /\ UNCHANGED <<outbox, nextId, opCount, trustBase>>

\* id of the token that mint commitment k of the split creates
MintOutput(s, k) == IF k = 1 THEN s.recipientTokenId ELSE s.changeTokenId

\* a failure of the onTokenBurned callback swallowed by the splitter
BurnNotified_ignoresFailure ==
    /\ UNCHANGED <<identityStore, suspended>>
    /\ op.kind = "sendAmount" /\ op.pc = "burn_notify"
    /\ \E ok \in BOOLEAN :
          /\ op' = [op EXCEPT !.pc = "mint_resp",
                              !.error = IF ok THEN NoError
                                        ELSE "State change callback failed"]
          /\ sp' = [sp EXCEPT !.mintIdx = 1, !.state = "MintsSubmitted"]
          /\ log' = log \o <<Event("onTokenBurned_done", sp.token.id, 0),
                             Event("mint_submit", sp.token.id, MintOutput(sp, 1))>>
    /\ UNCHANGED <<wallets, ledger, outbox, nextId, opCount, trustBase>>

\* the onTokenBurned callback completes; the first mint commitment goes out
BurnNotified ==
    /\ UNCHANGED <<identityStore, suspended>>
    /\ op.kind = "sendAmount" /\ op.pc = "burn_notify"
    /\ \E ok \in BOOLEAN :
          IF ok
          THEN /\ op' = [op EXCEPT !.pc = "mint_resp"]
               /\ sp' = [sp EXCEPT !.mintIdx = 1, !.state = "MintsSubmitted"]
               /\ log' = log \o <<Event("onTokenBurned_done", sp.token.id, 0),
                                  Event("mint_submit", sp.token.id,
                                        MintOutput(sp, 1))>>
          ELSE /\ op' = Failed(op, "State change callback failed")
               /\ UNCHANGED <<sp, log>>
    /\ UNCHANGED <<wallets, ledger, outbox, nextId, opCount, trustBase>>

SplitMintResponse ==
    /\ UNCHANGED <<identityStore, suspended>>
    /\ op.kind = "sendAmount" /\ op.pc = "mint_resp"
    /\ \E status \in {"SUCCESS", "REJECTED"} :
          op' = IF status = "SUCCESS"
                THEN [op EXCEPT !.pc = "mint_wait"]
                ELSE Failed(op, "Mint commitment failed")
    /\ UNCHANGED <<wallets, sp, log, ledger, outbox, nextId, opCount, trustBase>>

\* the total of the selected entries reported as sent, change included
SendAmountResult_selectionTotal(o) ==
    [sent |-> o.selection.totalAmount, tokensUsed |-> Len(o.selection.tokens),
     splitPerformed |-> o.selection.requiresSplit,
     recipientPayload |-> IF Len(o.selection.tokens) = 1 THEN o.payloads[1]
                          ELSE MultiSplitPayload(o.payloads,
                                   o.selection.totalAmount, o.coin)]

\* The ISendAmountResult that sendAmount returns once every token is processed
SendAmountResult(o) ==
    IF Len(o.selection.tokens) = 1
    THEN [sent |-> o.amount, tokensUsed |-> 1,
          splitPerformed |-> o.selection.requiresSplit,
          recipientPayload |-> o.payloads[1]]
    ELSE [sent |-> o.totalSent, tokensUsed |-> Len(o.selection.tokens),
          splitPerformed |-> o.selection.requiresSplit,
          recipientPayload |-> MultiSplitPayload(o.payloads, o.totalSent, o.coin)]

Returned(o) == [o EXCEPT !.pc = "done", !.result = SendAmountResult(o)]

\* the change token given the whole balance of the burned token
ChangeEntry_wholeBalance(s, coin, identityId) ==
    TokenEntry(s.changeTokenId, CoinData(coin, getCoinBalance(s.token, coin)),
               AddressOf(PublicKey(identityId)), identityId, s.changeTokenId)

\* The change token that split materializes for the signer
ChangeEntry(s, coin, identityId) ==
    TokenEntry(s.changeTokenId, CoinData(coin, s.changeAmount),
               AddressOf(PublicKey(identityId)), identityId, s.changeTokenId)

\* waitForInclusionProof(mintCommitment) ends.  With a proof the splitter
\* submits its next mint commitment, or returns to sendAmount, which adds the
\* change token (split) or goes on to its next token (splitExact)
SplitMintProof ==
    /\ UNCHANGED <<identityStore, suspended>>
    /\ op.kind = "sendAmount" /\ op.pc = "mint_wait"
    /\ \E proof \in BOOLEAN :
          IF ~proof
          THEN /\ op' = Failed(op, "TimeoutError")
               /\ UNCHANGED <<wallets, sp, log, ledger, outbox, nextId>>
          ELSE
          LET out == MintOutput(sp, sp.mintIdx)
              lg == Append(log, Event("mint_proof", sp.token.id, out))
              payload == SplitMintPayload(sp.recipientTokenId,
                             CoinData(op.coin, sp.amount),
                             AddressOf(op.recipientKey),
                             sp.recipientTokenId, sp.amount, op.coin)
              o1 == [op EXCEPT !.payloads = Append(@, payload),
                               !.totalSent = @ + sp.amount]
          IN  /\ ledger' = [ledger EXCEPT !.minted = @ \cup {out}]
              /\ IF sp.mintIdx < sp.nMints
                 THEN /\ op' = [op EXCEPT !.pc = "mint_resp"]
                      /\ sp' = [sp EXCEPT !.mintIdx = @ + 1]
                      /\ log' = Append(lg, Event("mint_submit", sp.token.id,
                                                 MintOutput(sp, sp.mintIdx + 1)))
                      /\ UNCHANGED <<wallets, outbox, nextId>>
                 ELSE IF sp.kind = "split"
                 THEN /\ wallets' = [wallets EXCEPT ![op.wallet] =
                             addToken(op.wallet, @,
                                      ChangeEntry(sp, op.coin, op.identityId))]
                      /\ op' = [o1 EXCEPT !.pc = "change_notify"]
                      /\ sp' = [sp EXCEPT !.state = "Materialized"]
                      /\ log' = Append(lg, Event("token_added", sp.changeTokenId, 0))
                      /\ UNCHANGED <<outbox, nextId>>
                 ELSE IF op.idx < Len(op.selection.tokens)
                 THEN /\ wallets' = wallets
                      /\ EnterToken(o1, lg, op.idx + 1)
                      /\ UNCHANGED outbox
                 ELSE /\ op' = Returned(o1)
                      /\ sp' = [sp EXCEPT !.state = "Materialized"]
                      /\ log' = lg
                      /\ outbox' = outbox \cup {SendAmountResult(o1).recipientPayload}
                      /\ UNCHANGED <<wallets, nextId>>
    /\ UNCHANGED <<opCount, trustBase>>

\* the token_added notification for the change token completes
ChangeNotified ==
    /\ UNCHANGED <<identityStore, suspended>>
    /\ op.kind = "sendAmount" /\ op.pc = "change_notify"
    /\ \E ok \in BOOLEAN :
          IF ok
          THEN /\ op' = Returned(op)
               /\ outbox' = outbox \cup {SendAmountResult(op).recipientPayload}
          ELSE /\ op' = Failed(op, "State change callback failed")
               /\ UNCHANGED outbox
    /\ UNCHANGED <<wallets, sp, log, ledger, nextId, opCount, trustBase>>

----------------------------------------------------------------------------
(* AlphaClient.send: token-based transfer *)

SendStart(w, tokenId, recipientKey) ==
    /\ UNCHANGED <<identityStore, suspended>>
    /\ CanStart
    /\ nextId <= MaxIds
    /\ opCount' = opCount + 1
    /\ sp' = NoSplit
    /\ LET o == [NoOp EXCEPT !.kind = "send", !.wallet = w,
                             !.recipientKey = recipientKey,
                             !.trustBaseAtStart = trustBase,
                             !.walletAtStart = wallets[w]]
           index == getToken(wallets[w], tokenId)
       IN  IF index = 0
           THEN /\ op' = Failed(o, "Token not found in wallet")
                /\ log' = <<>>
                /\ UNCHANGED nextId
           ELSE IF getIdentity(w, wallets[w][index].identityId) = NoId
           THEN /\ op' = Failed(o, "Identity not found")
                /\ log' = <<>>
                /\ UNCHANGED nextId
           ELSE /\ op' = [o EXCEPT !.pc = "transfer_resp",
                                   !.entry = wallets[w][index],
                                   !.identityId = wallets[w][index].identityId,
                                   !.salt = nextId]
                /\ log' = <<Event("transfer_submit", tokenId, 0)>>
                /\ nextId' = nextId + 1
    /\ UNCHANGED <<wallets, ledger, outbox, trustBase>>

\* submitTransferCommitment answers; waitForInclusionProof then asks for the
\* trust base
TransferResponse ==
    /\ UNCHANGED <<identityStore, suspended>>
    /\ op.kind = "send" /\ op.pc = "transfer_resp"
    /\ \E status \in {"SUCCESS", "REJECTED"} :
          /\ status = "SUCCESS" => LedgerCanAccept(op.entry, op.identityId)
          /\ IF status = "SUCCESS"
             THEN /\ ledger' = [ledger EXCEPT
                                  !.burnAccepted = @ \cup {StateOf(op.entry)}]
                  /\ op' = IF trustBase THEN [op EXCEPT !.pc = "transfer_wait"]
                           ELSE Failed(op, "Trust base not configured")
             ELSE /\ op' = Failed(op, "Transfer submission failed")
                  /\ UNCHANGED ledger
    /\ UNCHANGED <<wallets, sp, log, outbox, nextId, opCount, trustBase>>

\* the sent token dropped from the wallet whether or not a proof came back
TransferProof_removesAnyway ==
    /\ UNCHANGED <<identityStore, suspended>>
    /\ op.kind = "send" /\ op.pc = "transfer_wait"
    /\ \E proof \in BOOLEAN :
          /\ wallets' = [wallets EXCEPT ![op.wallet] = removeToken(@, op.entry.id)]
          /\ IF proof
             THEN /\ ledger' = [ledger EXCEPT
                                  !.burnConfirmed = @ \cup {StateOf(op.entry)}]
                  /\ log' = log \o <<Event("transfer_proof", op.entry.id, 0),
                                     Event("token_removed", op.entry.id, 0)>>
                  /\ op' = [op EXCEPT !.pc = "send_notify"]
             ELSE /\ op' = Failed(op, "TimeoutError")
                  /\ UNCHANGED <<ledger, log>>
    /\ UNCHANGED <<sp, outbox, nextId, opCount, trustBase>>

TransferProof ==
    /\ UNCHANGED <<identityStore, suspended>>
    /\ op.kind = "send" /\ op.pc = "transfer_wait"
    /\ \E proof \in BOOLEAN :
          IF proof
          THEN /\ ledger' = [ledger EXCEPT
                               !.burnConfirmed = @ \cup {StateOf(op.entry)}]
               /\ wallets' = [wallets EXCEPT ![op.wallet] =
                                 removeToken(@, op.entry.id)]
               /\ log' = log \o <<Event("transfer_proof", op.entry.id, 0),
                                  Event("token_removed", op.entry.id, 0)>>
               /\ op' = [op EXCEPT !.pc = "send_notify"]
          ELSE /\ op' = Failed(op, "TimeoutError")
               /\ UNCHANGED <<ledger, wallets, log>>
    /\ UNCHANGED <<sp, outbox, nextId, opCount, trustBase>>

SendNotified ==
    /\ UNCHANGED <<identityStore, suspended>>
    /\ op.kind = "send" /\ op.pc = "send_notify"
    /\ \E ok \in BOOLEAN :
          IF ok
          THEN /\ op' = [op EXCEPT !.pc = "done"]
               /\ outbox' = outbox \cup
                    {TransferMessage(op.entry, AddressOf(op.recipientKey), op.salt)}
          ELSE /\ op' = Failed(op, "State change callback failed")
               /\ UNCHANGED outbox
    /\ UNCHANGED <<wallets, sp, log, ledger, nextId, opCount, trustBase>>

----------------------------------------------------------------------------
(* AlphaClient.receive: token-based receipt *)

\* receive without the comparison of our address with the declared recipient
ReceiveStart_noCheck(w, msg) ==
    /\ UNCHANGED <<identityStore, suspended>>
    /\ CanStart
    /\ msg \in outbox /\ msg.type = "transfer"
    /\ opCount' = opCount + 1
    /\ sp' = NoSplit
    /\ LET o == [NoOp EXCEPT !.kind = "receive", !.wallet = w, !.input = msg,
                             !.trustBaseAtStart = trustBase,
                             !.walletAtStart = wallets[w]]
           identity == ResolveIdentity(w, NoId)
           fail == IF ~trustBase THEN "Trust base not configured"
                   ELSE IF identity = NoId THEN "Identity not found"
                   ELSE NoError
       IN  IF fail # NoError
           THEN /\ op' = Failed(o, fail)
                /\ log' = <<>>
           ELSE /\ op' = [o EXCEPT !.pc = "finalize", !.identityId = identity,
                              !.entry = TokenEntry(msg.tx.tokenId, msg.tx.coins,
                                            msg.tx.recipient, identity, msg.salt)]
                /\ log' = <<Event("finalize", msg.tx.tokenId, 0)>>
    /\ UNCHANGED <<wallets, ledger, outbox, nextId, trustBase>>

ReceiveStart(w, msg) ==
    /\ UNCHANGED <<identityStore, suspended>>
    /\ CanStart
    /\ msg \in outbox /\ msg.type = "transfer"
    /\ opCount' = opCount + 1
    /\ sp' = NoSplit
    /\ LET o == [NoOp EXCEPT !.kind = "receive", !.wallet = w, !.input = msg,
                             !.trustBaseAtStart = trustBase,
                             !.walletAtStart = wallets[w]]
           identity == ResolveIdentity(w, NoId)
           ourAddress == AddressOf(PublicKey(identity))
           recipientAddress == msg.tx.recipient
           fail == IF ~trustBase THEN "Trust base not configured"
                   ELSE IF identity = NoId THEN "Identity not found"
                   ELSE IF ourAddress # recipientAddress
                   THEN "Token was not sent to this wallet"
                   ELSE NoError
       IN  IF fail # NoError
           THEN /\ op' = Failed(o, fail)
                /\ log' = <<>>
           ELSE /\ op' = [o EXCEPT !.pc = "finalize", !.identityId = identity,
                              !.entry = TokenEntry(msg.tx.tokenId, msg.tx.coins,
                                            recipientAddress, identity, msg.salt)]
                /\ log' = <<Event("finalize", msg.tx.tokenId, 0)>>
    /\ UNCHANGED <<wallets, ledger, outbox, nextId, trustBase>>

\* client.finalizeTransaction ends; the finalized token goes into the wallet
ReceiveFinalized ==
    /\ UNCHANGED <<identityStore, suspended>>
    /\ op.kind = "receive" /\ op.pc = "finalize"
    /\ \E ok \in BOOLEAN :
          IF ok
          THEN /\ wallets' = [wallets EXCEPT ![op.wallet] =
                                 addToken(op.wallet, @, op.entry)]
               /\ log' = Append(log, Event("token_added", op.entry.id, 0))
               /\ op' = [op EXCEPT !.pc = "receive_notify"]
          ELSE /\ op' = Failed(op, "Finalize failed")
               /\ UNCHANGED <<wallets, log>>
    /\ UNCHANGED <<sp, ledger, outbox, nextId, opCount, trustBase>>

ReceiveNotified ==
    /\ UNCHANGED <<identityStore, suspended>>
    /\ op.kind = "receive" /\ op.pc = "receive_notify"
    /\ \E ok \in BOOLEAN :
          op' = IF ok THEN [op EXCEPT !.pc = "done", !.received = <<op.entry.id>>]
                ELSE Failed(op, "State change callback failed")
    /\ UNCHANGED <<wallets, sp, log, ledger, outbox, nextId, opCount, trustBase>>

----------------------------------------------------------------------------
(* AlphaClient.receiveAmount *)

\* only the first sub-payload of an envelope walked through
SubPayloads_firstOnly(msg) ==
    IF msg.type = "split_mint" THEN <<msg>> ELSE SubSeq(msg.payloads, 1, 1)

\* the sub-payloads that receiveAmount walks through
SubPayloads(msg) == IF msg.type = "split_mint" THEN <<msg>> ELSE msg.payloads

\* SimpleToken.fromSplitMint: the token of the mint transaction under a
\* predicate of the receiving signing service, as receiveSplitToken stores it
fromSplitMint(mintTransaction, salt, identityId) ==
    TokenEntry(mintTransaction.tokenId, mintTransaction.coins,
               mintTransaction.recipient, identityId, salt)

\* the tokens of sub-payload i and of all later sub-payloads added before the
\* notification of sub-payload i
ReceiveSplitToken_addsAll(o, lg, i) ==
    LET subs == SubPayloads(o.input)
        payload == subs[i]
        token == fromSplitMint(payload.tx, payload.salt, o.identityId)
        rest == [j \in 1..(Len(subs) - i + 1) |->
                    fromSplitMint(subs[i + j - 1].tx, subs[i + j - 1].salt,
                                  o.identityId)]
    IN  /\ wallets' = [wallets EXCEPT ![o.wallet] = @ \o rest]
        /\ log' = Append(lg, Event("token_added", token.id, 0))
        /\ op' = [o EXCEPT !.pc = "recv_notify", !.idx = i, !.entry = token]

\* receiveSplitToken for sub-payload i, up to the await of notifyStateChange
ReceiveSplitToken(o, lg, i) ==
    LET payload == SubPayloads(o.input)[i]
        token == fromSplitMint(payload.tx, payload.salt, o.identityId)
    IN  /\ wallets' = [wallets EXCEPT ![o.wallet] = addToken(o.wallet, @, token)]
        /\ log' = Append(lg, Event("token_added", token.id, 0))
        /\ op' = [o EXCEPT !.pc = "recv_notify", !.idx = i, !.entry = token]

ReceiveAmountStart(w, msg) ==
    /\ UNCHANGED <<identityStore, suspended>>
    /\ CanStart
    /\ msg \in outbox /\ msg.type \in {"split_mint", "multi_split"}
    /\ opCount' = opCount + 1
    /\ sp' = NoSplit
    /\ LET o == [NoOp EXCEPT !.kind = "receiveAmount", !.wallet = w,
                             !.input = msg, !.walletAtStart = wallets[w]]
           identity == ResolveIdentity(w, NoId)
       IN  IF identity = NoId
           THEN /\ op' = Failed(o, "Identity not found")
                /\ UNCHANGED <<wallets, log>>
           ELSE IF Len(SubPayloads(msg)) = 0
           THEN /\ op' = [o EXCEPT !.pc = "done"]
                /\ UNCHANGED <<wallets, log>>
           ELSE ReceiveSplitToken([o EXCEPT !.identityId = identity], <<>>, 1)
    /\ UNCHANGED <<ledger, outbox, nextId, trustBase>>

ReceiveAmountNotified ==
    /\ UNCHANGED <<identityStore, suspended>>
    /\ op.kind = "receiveAmount" /\ op.pc = "recv_notify"
    /\ \E ok \in BOOLEAN :
          IF ~ok
          THEN /\ op' = Failed(op, "State change callback failed")
               /\ UNCHANGED <<wallets, log>>
          ELSE LET o1 == [op EXCEPT !.received = Append(@, op.entry.id)]
               IN  IF op.idx < Len(SubPayloads(op.input))
                   THEN ReceiveSplitToken(o1, log, op.idx + 1)
                   ELSE /\ op' = [o1 EXCEPT !.pc = "done"]
                        /\ UNCHANGED <<wallets, log>>
    /\ UNCHANGED <<sp, ledger, outbox, nextId, opCount, trustBase>>

----------------------------------------------------------------------------
(* AlphaClient.getTokenStatus *)

GetTokenStatus(w, tokenId) ==
    /\ UNCHANGED <<identityStore, suspended>>
    /\ CanStart
    /\ opCount' = opCount + 1
    /\ sp' = NoSplit
    /\ log' = <<>>
    /\ LET o == [NoOp EXCEPT !.kind = "getTokenStatus", !.wallet = w,
                             !.trustBaseAtStart = trustBase,
                             !.walletAtStart = wallets[w]]
           index == getToken(wallets[w], tokenId)
       IN  op' = IF ~trustBase THEN Failed(o, "Trust base not configured")
                 ELSE IF index = 0 THEN Failed(o, "Token not found in wallet")
                 ELSE IF getIdentity(w, wallets[w][index].identityId) = NoId
                 THEN Failed(o, "Identity not found")
                 ELSE [o EXCEPT !.pc = "done", !.entry = wallets[w][index],
                                !.identityId = wallets[w][index].identityId]
    /\ UNCHANGED <<wallets, ledger, outbox, nextId, trustBase>>

----------------------------------------------------------------------------
(* The client: sequential operations of a host on its wallets *)

Keys == {PublicKey(IdentityOf(w)) : w \in Wallets}
TokenIds == 1..MaxIds

Next ==
    \/ SetTrustBase
    \/ NewClient
    \/ \E w \in Wallets, coins \in MintChoices : MintStart(w, coins)
    \/ MintResponse
    \/ MintProof
    \/ MintNotified
    \/ \E w \in Wallets, i \in 1..MaxIds : AddTokenCall(w, i)
    \/ \E w \in Wallets, coin \in Coins, amount \in SendAmounts,
          key \in Keys, id \in {NoId} \cup {IdentityOf(x) : x \in Wallets} :
            /\ key # PublicKey(IdentityOf(w))
            /\ SendAmountStart(w, coin, amount, key, id)
    \/ BurnResponse
    \/ BurnProof
    \/ BurnNotified
    \/ SplitMintResponse
    \/ SplitMintProof
    \/ ChangeNotified
    \/ \E w \in Wallets, tokenId \in TokenIds, key \in Keys :
            /\ key # PublicKey(IdentityOf(w))
            /\ SendStart(w, tokenId, key)
    \/ TransferResponse
    \/ TransferProof
    \/ SendNotified
    \/ \E w \in Wallets, msg \in outbox : ReceiveStart(w, msg)
    \/ ReceiveFinalized
    \/ ReceiveNotified
    \/ \E w \in Wallets, msg \in outbox : ReceiveAmountStart(w, msg)
    \/ ReceiveAmountNotified
    \/ \E w \in Wallets, tokenId \in TokenIds : GetTokenStatus(w, tokenId)

Spec == Init /\ [][Next]_vars

\* the steps by which an operation that has started goes on: the aggregator
\* answers a submission, a wait for an inclusion proof ends (with the proof,
\* or when the AbortSignal.timeout of waitForInclusionProof fires), an awaited
\* state-change callback returns or throws
OpStep ==
    \/ MintResponse \/ MintProof \/ MintNotified
    \/ BurnResponse \/ BurnProof \/ BurnNotified
    \/ SplitMintResponse \/ SplitMintProof \/ ChangeNotified
    \/ TransferResponse \/ TransferProof \/ SendNotified
    \/ ReceiveFinalized \/ ReceiveNotified
    \/ ReceiveAmountNotified

\* the client with every started operation going on; the host is free never
\* to start another one
SpecLive == Spec /\ WF_vars(OpStep)

----------------------------------------------------------------------------
(* Two sendAmount calls on one wallet that interleave at their awaits *)

\* JavaScript runs one call at a time and switches between calls only at an
\* await: the call in op is suspended where it stands and the other call
\* goes on (or, when none has been made, the host is free to make one)
Yield ==
    /\ op # suspended.op
    /\ suspended' = [op |-> op, sp |-> sp, log |-> log]
    /\ op' = suspended.op
    /\ sp' = suspended.sp
    /\ log' = suspended.log
    /\ UNCHANGED <<wallets, ledger, outbox, nextId, opCount, trustBase,
                   identityStore>>

RaceAmounts == {1, 2}

\* wallet A holds one minted token of 2 ALPHA, or two tokens of 1 and 2 ALPHA
RaceWallets ==
    {<<TokenEntry(1, CoinData("ALPHA", 2), AddressOf(PublicKey("A")), "A", 1)>>,
     <<TokenEntry(1, CoinData("ALPHA", 1), AddressOf(PublicKey("A")), "A", 1),
       TokenEntry(2, CoinData("ALPHA", 2), AddressOf(PublicKey("A")), "A", 2)>>}

RaceInit ==
    /\ \E held \in RaceWallets :
          /\ wallets = [w \in Wallets |-> IF w = "A" THEN held ELSE <<>>]
          /\ ledger = [burnAccepted |-> {}, burnConfirmed |-> {},
                       minted |-> {held[i].id : i \in 1..Len(held)}]
          /\ nextId = Len(held) + 1
    /\ op = NoOp
    /\ sp = NoSplit
    /\ log = <<>>
    /\ outbox = {}
    /\ opCount = 0
    /\ trustBase = TRUE
    /\ identityStore = [w \in Wallets |-> Created(w)]
    /\ suspended = NoCall

RaceNext ==
    \/ Yield
    \/ \E amount \in RaceAmounts :
          SendAmountStart("A", "ALPHA", amount, PublicKey("B"), NoId)
    \/ BurnResponse
    \/ BurnProof
    \/ BurnNotified
    \/ SplitMintResponse
    \/ SplitMintProof
    \/ ChangeNotified

SpecRace == RaceInit /\ [][RaceNext]_vars

----------------------------------------------------------------------------
(* The selector on its own: a wallet drawn from bounded sets, then calls of
   CoinManager.selectTokensForAmount on it *)

SelIdentities == {"A", "A2"}
SelBalances == 0..MaxSelBalance

\* the wallet of the selection-strategy example: [10, 25, 50, 100, 500] ALPHA
ExampleBalances == <<10, 25, 50, 100, 500>>
ExampleWallet ==
    [i \in 1..5 |-> TokenEntry(i, CoinData("ALPHA", ExampleBalances[i]),
                               AddressOf(PublicKey("A")), "A", i)]

SelWalletsOfLen(n) ==
    {[i \in 1..n |-> TokenEntry(i, CoinData("ALPHA", b[i]),
                                AddressOf(PublicKey(ids[i])), ids[i], i)] :
        b \in [1..n -> SelBalances], ids \in [1..n -> SelIdentities]}

SelWallets ==
    {ExampleWallet} \cup UNION {SelWalletsOfLen(n) : n \in 0..MaxSelTokens}

SelAmounts == (-1..(MaxSelTokens * MaxSelBalance + 1)) \cup {35, 50, 80, 200, 686}

SelInit ==
    /\ \E s \in SelWallets :
          wallets = [w \in Wallets |-> IF w = "A" THEN s ELSE <<>>]
    /\ op = NoOp
    /\ sp = NoSplit
    /\ log = <<>>
    /\ ledger = [burnAccepted |-> {}, burnConfirmed |-> {}, minted |-> {}]
    /\ outbox = {}
    /\ nextId = 1
    /\ opCount = 0
    /\ trustBase = TRUE
    /\ identityStore = [w \in Wallets |-> Created(w)]
    /\ suspended = NoCall

\* the sort applied to the wallet's own token array instead of a copy
SelectCall_sortsInPlace(w, coin, amount, optIdentityId) ==
    /\ UNCHANGED <<identityStore, suspended>>
    /\ op.kind = "none"
    /\ LET r == selectTokensForAmount(wallets[w], coin, amount, optIdentityId)
       IN  op' = [NoOp EXCEPT !.kind = "select",
                              !.pc = IF r.error = NoError THEN "done" ELSE "failed",
                              !.wallet = w, !.coin = coin, !.amount = amount,
                              !.optIdentityId = optIdentityId,
                              !.selection = r.sel, !.error = r.error,
                              !.detail = ErrorDetail(r),
                              !.walletAtStart = wallets[w]]
    /\ wallets' = [wallets EXCEPT ![w] =
                      IF amount <= 0 THEN @
                      ELSE Entries(SortAscending(getTokensWithBalance(@, coin, NoId)))]
    /\ UNCHANGED <<sp, log, ledger, outbox, nextId, opCount, trustBase>>

SelectCall(w, coin, amount, optIdentityId) ==
    /\ UNCHANGED <<identityStore, suspended>>
    /\ op.kind = "none"
    /\ LET r == selectTokensForAmount(wallets[w], coin, amount, optIdentityId)
       IN  op' = [NoOp EXCEPT !.kind = "select",
                              !.pc = IF r.error = NoError THEN "done" ELSE "failed",
                              !.wallet = w, !.coin = coin, !.amount = amount,
                              !.optIdentityId = optIdentityId,
                              !.selection = r.sel, !.error = r.error,
                              !.detail = ErrorDetail(r),
                              !.walletAtStart = wallets[w]]
    /\ UNCHANGED <<wallets, sp, log, ledger, outbox, nextId, opCount, trustBase>>

\* the same call made a second time on the wallet as the first call left it
SelectAgain ==
    /\ UNCHANGED <<identityStore, suspended>>
    /\ op.kind = "select" /\ op.result = NoResult
    /\ LET r == selectTokensForAmount(wallets[op.wallet], op.coin, op.amount,
                                      op.optIdentityId)
       IN  op' = [op EXCEPT !.result = [error |-> r.error, selection |-> r.sel,
                                        detail |-> ErrorDetail(r)]]
    /\ UNCHANGED <<wallets, sp, log, ledger, outbox, nextId, opCount, trustBase>>

SelNext ==
    \/ \E amount \in SelAmounts, id \in {NoId, "A"} :
          SelectCall("A", "ALPHA", amount, id)
    \/ SelectAgain

SpecSel == SelInit /\ [][SelNext]_vars

----------------------------------------------------------------------------
(* Wallet identity management: createIdentity, importIdentity,             *)
(* setDefaultIdentity, removeIdentity and merge on wallets made by         *)
(* Wallet.create                                                           *)

\* the Identity.id values that exist
IdentityPool == <<"A", "B", "C", "D", "E">>
IdentityIds == {IdentityPool[i] : i \in 1..MaxIdentities}

\* the outcome of a Wallet method: the identity store it leaves and its error
Outcome(store, error) == [store |-> store, error |-> error]

\* Wallet.createIdentity, id being the id of the identity Identity.create made
createIdentity(store, id, setAsDefault) ==
    Outcome([identities |-> Append(store.identities, id),
             defaultIdentityId |-> IF setAsDefault THEN id
                                   ELSE store.defaultIdentityId],
            NoError)

importIdentity(store, id, setAsDefault) ==
    IF id \in IdsOf(store)
    THEN Outcome(store, "Identity with ID already exists")
    ELSE Outcome([identities |-> Append(store.identities, id),
                  defaultIdentityId |-> IF setAsDefault THEN id
                                        ELSE store.defaultIdentityId],
                 NoError)

setDefaultIdentity(store, id) ==
    IF id \notin IdsOf(store)
    THEN Outcome(store, "Identity with ID not found")
    ELSE Outcome([store EXCEPT !.defaultIdentityId = id], NoError)

\* for (const otherId of this.identities.keys()) if (otherId !== id) ... break
FirstOtherId(ids, id) ==
    ids[CHOOSE i \in 1..Len(ids) :
            /\ ids[i] # id
            /\ \A j \in 1..(i - 1) : ids[j] = id]

\* the default left as it was when the default identity is removed
removeIdentity_keepsDefault(store, id) ==
    IF id \notin IdsOf(store)
    THEN Outcome(store, "Identity with ID not found")
    ELSE IF Len(store.identities) = 1
    THEN Outcome(store, "Cannot remove the last identity")
    ELSE Outcome([identities |-> SelectSeq(store.identities, LAMBDA i : i # id),
                  defaultIdentityId |-> store.defaultIdentityId],
                 NoError)

removeIdentity(store, id) ==
    IF id \notin IdsOf(store)
    THEN Outcome(store, "Identity with ID not found")
    ELSE IF Len(store.identities) = 1
    THEN Outcome(store, "Cannot remove the last identity")
    ELSE Outcome([identities |-> SelectSeq(store.identities, LAMBDA i : i # id),
                  defaultIdentityId |->
                      IF id = store.defaultIdentityId
                      THEN FirstOtherId(store.identities, id)
                      ELSE store.defaultIdentityId],
                 NoError)

\* Wallet.merge, the identities: those of the other wallet not yet present
mergeIdentities(store, other) ==
    [store EXCEPT !.identities =
        @ \o SelectSeq(other.identities, LAMBDA i : i \notin IdsOf(store))]

\* Wallet.merge, the tokens: the entries of the other wallet whose token id was
\* not in this wallet before the merge, re-owned by the default identity when
\* their identity is not in this wallet
mergeTokens(tokens, otherTokens, store) ==
    LET existingTokenIds == {tokens[i].id : i \in 1..Len(tokens)}
        new == SelectSeq(otherTokens, LAMBDA e : e.id \notin existingTokenIds)
    IN  tokens \o
        [i \in 1..Len(new) |->
            [new[i] EXCEPT !.identityId =
                IF @ \in IdsOf(store) THEN @ ELSE store.defaultIdentityId]]

\* one finished call of a Wallet method
WalletCall(kind, w, id, r) ==
    [NoOp EXCEPT !.kind = kind, !.wallet = w, !.identityId = id,
                 !.pc = IF r.error = NoError THEN "done" ELSE "failed",
                 !.error = r.error,
                 !.walletAtStart = wallets[w],
                 !.identitiesAtStart = identityStore[w]]

\* a Wallet method is called between client operations and touches nothing of
\* the client
IdentityFrame ==
    /\ CanStart
    /\ opCount' = opCount + 1
    /\ UNCHANGED <<sp, log, ledger, outbox, nextId, trustBase, suspended>>

CreateIdentity(w, id, setAsDefault) ==
    /\ IdentityFrame
    /\ \A x \in Wallets : id \notin Identities(x)
    /\ LET r == createIdentity(identityStore[w], id, setAsDefault)
       IN  /\ identityStore' = [identityStore EXCEPT ![w] = r.store]
           /\ op' = WalletCall("createIdentity", w, id, r)
    /\ UNCHANGED wallets

ImportIdentity(w, id, setAsDefault) ==
    /\ IdentityFrame
    /\ LET r == importIdentity(identityStore[w], id, setAsDefault)
       IN  /\ identityStore' = [identityStore EXCEPT ![w] = r.store]
           /\ op' = WalletCall("importIdentity", w, id, r)
    /\ UNCHANGED wallets

SetDefaultIdentity(w, id) ==
    /\ IdentityFrame
    /\ LET r == setDefaultIdentity(identityStore[w], id)
       IN  /\ identityStore' = [identityStore EXCEPT ![w] = r.store]
           /\ op' = WalletCall("setDefaultIdentity", w, id, r)
    /\ UNCHANGED wallets

RemoveIdentity(w, id) ==
    /\ IdentityFrame
    /\ LET r == removeIdentity(identityStore[w], id)
       IN  /\ identityStore' = [identityStore EXCEPT ![w] = r.store]
           /\ op' = WalletCall("removeIdentity", w, id, r)
    /\ UNCHANGED wallets

Merge(w, other) ==
    /\ IdentityFrame
    /\ LET store == mergeIdentities(identityStore[w], identityStore[other])
       IN  /\ identityStore' = [identityStore EXCEPT ![w] = store]
           /\ wallets' = [wallets EXCEPT ![w] =
                             mergeTokens(@, wallets[other], store)]
           /\ op' = WalletCall("merge", w, NoId, Outcome(store, NoError))

\* wallets made by Wallet.create, each holding one token of its identity
IdInit ==
    /\ identityStore = [w \in Wallets |-> Created(w)]
    /\ suspended = NoCall
    /\ wallets = [w \in Wallets |->
                     <<TokenEntry(IF w = "A" THEN 1 ELSE 2, CoinData("ALPHA", 1),
                                  AddressOf(PublicKey(IdentityOf(w))),
                                  IdentityOf(w), 1)>>]
    /\ op = NoOp
    /\ sp = NoSplit
    /\ log = <<>>
    /\ ledger = [burnAccepted |-> {}, burnConfirmed |-> {}, minted |-> {}]
    /\ outbox = {}
    /\ nextId = 1
    /\ opCount = 0
    /\ trustBase = TRUE

IdNext ==
    \/ \E w \in Wallets, id \in IdentityIds, setAsDefault \in BOOLEAN :
          CreateIdentity(w, id, setAsDefault)
    \/ \E w \in Wallets, id \in IdentityIds, setAsDefault \in BOOLEAN :
          ImportIdentity(w, id, setAsDefault)
    \/ \E w \in Wallets, id \in IdentityIds : SetDefaultIdentity(w, id)
    \/ \E w \in Wallets, id \in IdentityIds : RemoveIdentity(w, id)
    \/ \E w, other \in Wallets : Merge(w, other)

SpecId == IdInit /\ [][IdNext]_vars

----------------------------------------------------------------------------
(* A client on a wallet that is given further identities *)

MultiAmounts == {1, 2}

MultiInit ==
    /\ Init
    /\ trustBase

MultiNext ==
    \/ \E id \in IdentityIds, setAsDefault \in BOOLEAN :
          CreateIdentity("A", id, setAsDefault)
    \/ \E id \in IdentityIds : SetDefaultIdentity("A", id)
    \/ \E coins \in MintChoices : MintStart("A", coins)
    \/ MintResponse
    \/ MintProof
    \/ MintNotified
    \/ \E amount \in MultiAmounts, id \in {NoId} \cup IdentityIds :
          SendAmountStart("A", "ALPHA", amount, PublicKey("B"), id)
    \/ BurnResponse
    \/ BurnProof
    \/ BurnNotified
    \/ SplitMintResponse
    \/ SplitMintProof
    \/ ChangeNotified

SpecMulti == MultiInit /\ [][MultiNext]_vars

----------------------------------------------------------------------------
(* Properties of the selector, checked under SpecSel *)

\* the entries a selection call looks at: all, or those of options.identityId
Considered(o) ==
    IF o.optIdentityId = NoId THEN o.walletAtStart
    ELSE listTokensForIdentity(o.walletAtStart, o.optIdentityId)

SelectedBalances(o) ==
    [i \in 1..Len(o.selection.tokens) |->
        getCoinBalance(o.selection.tokens[i], o.coin)]

\* C1: for 0 < amount <= (sum of the owned balances of the coin) the selector
\* does not fail and covers the amount exactly: without a split the selected
\* balances sum to amount; with a split the balances of all but the last plus
\* splitAmount sum to amount, and changeAmount = last balance - splitAmount >= 0
C1_SelectionCoversAmount ==
    (op.kind = "select" /\ op.amount > 0
        /\ op.amount <= BalanceOf(Considered(op), op.coin)) =>
    /\ op.pc = "done"
    /\ op.error = NoError
    /\ LET sel == op.selection
           n == Len(sel.tokens)
           bals == SelectedBalances(op)
       IN  /\ n >= 1
           /\ IF ~sel.requiresSplit
              THEN SumSeq(bals) = op.amount
              ELSE /\ SumSeq(SubSeq(bals, 1, n - 1)) + sel.splitAmount = op.amount
                   /\ sel.changeAmount = bals[n] - sel.splitAmount
                   /\ sel.changeAmount >= 0

\* a selection of several entries whose last entry is split
C1_Witness ==
    /\ op.kind = "select" /\ op.pc = "done"
    /\ op.selection.requiresSplit
    /\ Len(op.selection.tokens) >= 2
    /\ op.amount = BalanceOf(Considered(op), op.coin) - 1

\* C9: with balances [10, 25, 50, 100, 500] and a request for 80 the selector
\* consumes the 10 and 25 entries and splits the 50 entry (splitAmount 45,
\* changeAmount 5), not the 100 or the 500 entry
C9_Example80SplitsFifty ==
    (op.kind = "select" /\ op.walletAtStart = ExampleWallet /\ op.amount = 80) =>
    /\ op.pc = "done"
    /\ SelectedBalances(op) = <<10, 25, 50>>
    /\ op.selection.requiresSplit
    /\ op.selection.splitAmount = 45
    /\ op.selection.changeAmount = 5

\* C10: whenever some owned entry's balance of the coin equals the requested
\* amount, the selection is exactly one such entry, with requiresSplit false
\* and totalAmount = amount
C10_ExactMatchAlone ==
    (op.kind = "select" /\ op.amount > 0
        /\ \E i \in 1..Len(Considered(op)) :
              getCoinBalance(Considered(op)[i], op.coin) = op.amount) =>
    /\ op.pc = "done"
    /\ Len(op.selection.tokens) = 1
    /\ \E i \in 1..Len(Considered(op)) : op.selection.tokens[1] = Considered(op)[i]
    /\ getCoinBalance(op.selection.tokens[1], op.coin) = op.amount
    /\ ~op.selection.requiresSplit
    /\ op.selection.totalAmount = op.amount

\* an exact match chosen although two smaller entries also add up to the amount
C10_Witness ==
    /\ op.kind = "select" /\ op.pc = "done"
    /\ Len(op.selection.tokens) = 1
    /\ ~op.selection.requiresSplit
    /\ \E i, j \in 1..Len(Considered(op)) :
          /\ i # j
          /\ getCoinBalance(Considered(op)[i], op.coin) > 0
          /\ getCoinBalance(Considered(op)[j], op.coin) > 0
          /\ getCoinBalance(Considered(op)[i], op.coin)
               + getCoinBalance(Considered(op)[j], op.coin) = op.amount

\* the entries with a balance that a selection call sorts, in ascending order
SortedConsidered(o) ==
    SortAscending(getTokensWithBalance(o.walletAtStart, o.coin, o.optIdentityId))

\* the entries strictly smaller than the smallest entry that covers the amount
SmallerThanSufficient(o) ==
    LET sorted == SortedConsidered(o)
        k == findSmallestSufficient(sorted, o.amount)
    IN  IF k = 0 THEN <<>>
        ELSE SelectSeq(sorted, LAMBDA t : t.balance < sorted[k].balance)

\* C11: when no entry equals the amount, some entry has balance >= amount and
\* an ascending prefix of the entries strictly smaller than the smallest
\* sufficient entry sums exactly to the amount, the selection is exactly that
\* prefix with requiresSplit = false; balances [10, 25, 50, 100, 500] with a
\* request for 35 give the entries [10, 25] and no split
C11_ExactPrefixSelected ==
    /\ (op.kind = "select" /\ op.amount > 0) =>
          LET sorted == SortedConsidered(op)
              smaller == SmallerThanSufficient(op)
          IN  \A k \in 1..Len(smaller) :
                  (/\ findExactMatch(sorted, op.amount) = 0
                   /\ findSmallestSufficient(sorted, op.amount) # 0
                   /\ SumSeq(Balances(SubSeq(smaller, 1, k))) = op.amount) =>
                  /\ op.pc = "done"
                  /\ op.selection.tokens = Entries(SubSeq(smaller, 1, k))
                  /\ ~op.selection.requiresSplit
                  /\ op.selection.totalAmount = op.amount
    /\ (op.kind = "select" /\ op.walletAtStart = ExampleWallet /\ op.amount = 35) =>
          /\ op.pc = "done"
          /\ SelectedBalances(op) = <<10, 25>>
          /\ ~op.selection.requiresSplit

\* a prefix of two smaller entries chosen while a larger entry could cover
\* the amount on its own
C11_Witness ==
    /\ op.kind = "select" /\ op.pc = "done"
    /\ Len(op.selection.tokens) = 2
    /\ ~op.selection.requiresSplit
    /\ findExactMatch(SortedConsidered(op), op.amount) = 0
    /\ findSmallestSufficient(SortedConsidered(op), op.amount) # 0

----------------------------------------------------------------------------
(* Properties of the client, checked under Spec *)

\* event ev about token t sits at position j of the call record
At(j, ev, t) == log[j].ev = ev /\ log[j].token = t

\* C2: in split and splitExact the burned-token callback is invoked strictly
\* after the burn's inclusion proof is obtained and strictly before any mint
\* commitment is submitted; no mint submission precedes the completion of
\* the callback
C2_BurnCallbackOrdering ==
    op.kind = "sendAmount" =>
    \A j \in 1..Len(log) :
        /\ log[j].ev = "onTokenBurned" =>
              /\ \E a \in 1..(j - 1) : At(a, "burn_proof", log[j].token)
              /\ \A m \in 1..j : ~At(m, "mint_submit", log[j].token)
        /\ log[j].ev = "mint_submit" =>
              \E a, b, c \in 1..(j - 1) :
                  /\ a < b /\ b < c
                  /\ At(a, "burn_proof", log[j].token)
                  /\ At(b, "onTokenBurned", log[j].token)
                  /\ At(c, "onTokenBurned_done", log[j].token)

\* a split has submitted its second (change) mint commitment
C2_Witness ==
    /\ op.kind = "sendAmount" /\ sp.kind = "split"
    /\ \E j \in 1..Len(log) :
          log[j].ev = "mint_submit" /\ log[j].out = sp.changeTokenId

\* C3: during sendAmount a consumed token is removed from the wallet at its
\* burn confirmation, before any mint for it is submitted; so in every state
\* after the burn is confirmed, failure states included, the wallet does not
\* list that token
C3_BurnedTokenNotListed ==
    op.kind = "sendAmount" =>
    \A j \in 1..Len(log) :
        /\ log[j].ev = "burn_proof" => ~hasToken(wallets[op.wallet], log[j].token)
        /\ log[j].ev = "mint_submit" =>
              \E r \in 1..(j - 1) : At(r, "token_removed", log[j].token)

\* C4: a rejected burn submission makes split / splitExact and sendAmount
\* fail at once with no state change: the wallet is as it was when the
\* splitter was called (as at the start of sendAmount for its first token),
\* no callback or notification is invoked and no mint is submitted
C4_BurnRejectedNoStateChange ==
    (op.kind = "sendAmount" /\ \E j \in 1..Len(log) : log[j].ev = "burn_rejected") =>
    /\ op.pc = "failed"
    /\ op.error = "Burn commitment failed"
    /\ Len(log) >= 2
    /\ At(Len(log), "burn_rejected", sp.token.id)
    /\ At(Len(log) - 1, "burn_submit", sp.token.id)
    /\ wallets[op.wallet] = sp.walletAtStart
    /\ op.idx = 1 => wallets[op.wallet] = op.walletAtStart
    /\ MintOutput(sp, 1) \notin ledger.minted

\* sendAmount failed on a rejected burn and the wallet still holds the token
C4_Witness ==
    /\ op.kind = "sendAmount" /\ op.pc = "failed"
    /\ op.error = "Burn commitment failed"
    /\ hasToken(wallets[op.wallet], sp.token.id)
    /\ log[Len(log)].ev = "burn_rejected"

\* a (sub-)payload of the receiveAmount in progress declares a recipient that is
\* not the address of the receiving identity
Misaddressed(o) ==
    \E i \in 1..Len(SubPayloads(o.input)) :
        SubPayloads(o.input)[i].tx.recipient
            # AddressOf(PublicKey(ResolveIdentity(o.wallet, NoId)))

\* C5: receiveAmount rejects a (sub-)payload whose declared recipient is not
\* the address of the receiving identity: it fails, adds no token, notifies
\* nothing and leaves the wallet unchanged
C5_ReceiveAmountRejectsMisaddressed ==
    (op.kind = "receiveAmount" /\ Misaddressed(op)) =>
    /\ op.pc = "failed"
    /\ wallets[op.wallet] = op.walletAtStart
    /\ log = <<>>

\* C6: token-based receive rejects a transfer whose declared recipient differs
\* from the address of the receiving identity, before the transaction is
\* finalized and before any wallet mutation or notification
C6_ReceiveRejectsMisaddressed ==
    (op.kind = "receive"
        /\ op.input.tx.recipient
             # AddressOf(PublicKey(ResolveIdentity(op.wallet, NoId)))) =>
    /\ op.pc = "failed"
    /\ op.error \in {"Token was not sent to this wallet", "Trust base not configured"}
    /\ wallets[op.wallet] = op.walletAtStart
    /\ log = <<>>

\* a receive by the wrong wallet was rejected by the address check
C6_Witness ==
    /\ op.kind = "receive" /\ op.pc = "failed"
    /\ op.error = "Token was not sent to this wallet"
    /\ op.input.tx.recipient # AddressOf(PublicKey(IdentityOf(op.wallet)))

\* C7: receiving the same sendAmount payload a second time into the same
\* wallet does not double-count: token count and coin balance stay as they were
C7_NoDoubleReceive ==
    (op.kind = "receiveAmount" /\ op.pc \in {"done", "failed"}
        /\ \E i \in 1..Len(SubPayloads(op.input)) :
              hasToken(op.walletAtStart, SubPayloads(op.input)[i].tx.tokenId)) =>
    /\ Len(wallets[op.wallet]) = Len(op.walletAtStart)
    /\ BalanceOf(wallets[op.wallet], op.input.coinId)
         = BalanceOf(op.walletAtStart, op.input.coinId)

\* C8: Wallet.addToken with a token id already present throws and leaves the
\* wallet unchanged; token ids in a wallet are pairwise distinct
C8_TokenIdsDistinct ==
    /\ (op.kind = "addToken" /\ hasToken(op.walletAtStart, op.entry.id)) =>
          (op.pc = "failed" /\ wallets[op.wallet] = op.walletAtStart)
    /\ \A w \in Wallets : \A i, j \in 1..Len(wallets[w]) :
          i # j => wallets[w][i].id # wallets[w][j].id

\* number of events of kind ev in the call record of the current operation
CountEv(ev) == Cardinality({j \in 1..Len(log) : log[j].ev = ev})

\* C12: fragmentation bound: only the last entry of a selection is ever split,
\* and a successful sendAmount adds at most one new token (the change token)
\* to the sender's wallet however many entries it consumes: afterwards the
\* wallet holds tokensUsed fewer entries than before, plus one if and only if
\* splitPerformed
C12_FragmentationBound ==
    op.kind = "sendAmount" =>
    /\ sp.kind = "split" =>
          (op.idx = Len(op.selection.tokens) /\ op.selection.requiresSplit)
    /\ CountEv("token_added") <= 1
    /\ op.pc = "done" =>
          /\ op.result.tokensUsed = Len(op.selection.tokens)
          /\ op.result.splitPerformed = op.selection.requiresSplit
          /\ CountEv("token_added") = (IF op.result.splitPerformed THEN 1 ELSE 0)
          /\ Len(wallets[op.wallet])
               = Len(op.walletAtStart) - op.result.tokensUsed
                   + (IF op.result.splitPerformed THEN 1 ELSE 0)

\* a sendAmount that consumed two entries and split the last one has returned
C12_Witness ==
    /\ op.kind = "sendAmount" /\ op.pc = "done"
    /\ op.result.tokensUsed = 2
    /\ op.result.splitPerformed

\* a sendAmount call that got as far as its token selection
ReachedSelection(o) ==
    /\ o.kind = "sendAmount"
    /\ o.trustBaseAtStart
    /\ ResolveIdentity(o.wallet, o.optIdentityId) # NoId

\* what holds of a sendAmount that failed before any ledger interaction
FailedBeforeLedger(o) ==
    /\ o.pc = "failed"
    /\ o.selection = NullSel
    /\ log = <<>>
    /\ sp = NoSplit
    /\ wallets[o.wallet] = o.walletAtStart

C14_InvalidAmountFirst ==
    (op.kind = "sendAmount" /\ op.trustBaseAtStart /\ op.amount <= 0) =>
    /\ FailedBeforeLedger(op)
    /\ op.error = "Amount must be positive"
    /\ op.detail = <<>>
    /\ selectTokensForAmount(op.walletAtStart, op.coin, op.amount,
                             op.optIdentityId).error = "Amount must be positive"

\* a non-positive amount rejected on a wallet with no balance of the coin
C14_Witness ==
    /\ op.kind = "sendAmount" /\ op.trustBaseAtStart
    /\ op.amount <= 0
    /\ BalanceOf(op.walletAtStart, op.coin) = 0
    /\ op.pc = "failed"
    /\ op.error = "Amount must be positive"

\* the step appends one entry to wallet w
Adds(w, e) == wallets'[w] = Append(wallets[w], e)

\* the step deletes entry i of wallet w
Removes(w, i) ==
    wallets'[w] = SubSeq(wallets[w], 1, i - 1)
                    \o SubSeq(wallets[w], i + 1, Len(wallets[w]))

\* C15: mint, send and sendAmount never change the owned-token set
\* speculatively: a step of theirs that changes a wallet changes only the
\* wallet of the operation, and either appends one token whose mint has its
\* inclusion proof or deletes one token whose burn or transfer has its
\* inclusion proof; a step that ends the operation in failure (rejected
\* submission, proof not obtained) leaves every wallet as it was
C15_NoSpeculativeMutation ==
    [][(op'.kind \in {"mint", "send", "sendAmount"}) =>
        /\ (op' # op /\ op'.pc = "failed") => wallets' = wallets
        /\ wallets' # wallets =>
              /\ \A w \in Wallets \ {op'.wallet} : wallets'[w] = wallets[w]
              /\ \/ /\ Len(wallets'[op'.wallet]) = Len(wallets[op'.wallet]) + 1
                    /\ Adds(op'.wallet, wallets'[op'.wallet][Len(wallets'[op'.wallet])])
                    /\ wallets'[op'.wallet][Len(wallets'[op'.wallet])].id
                          \in ledger'.minted
                 \/ \E i \in 1..Len(wallets[op'.wallet]) :
                       /\ Removes(op'.wallet, i)
                       /\ StateOf(wallets[op'.wallet][i]) \in ledger'.burnConfirmed
      ]_vars

\* the change token of a split is in the wallet, its mint proved
C15_Witness ==
    /\ op.kind = "sendAmount" /\ op.pc = "change_notify"
    /\ sp.changeTokenId \in ledger.minted
    /\ hasToken(wallets[op.wallet], sp.changeTokenId)
    /\ ~hasToken(wallets[op.wallet], sp.token.id)

\* the positions at which an operation awaits onWalletStateChange
NotifyPcs == {"mint_notify", "burn_notify", "change_notify", "send_notify",
              "receive_notify", "recv_notify"}

\* WalletStateChange.type
StateChangeTypes == {"token_added", "token_removed", "token_replaced"}

\* the state-change notifications of the current operation, in call order
Notifs(l) == SelectSeq(l, LAMBDA e : e.ev \in StateChangeTypes)

\* C16: every add or remove of a wallet token made by mint, send, sendAmount,
\* receive and receiveAmount triggers exactly one notification describing it,
\* delivered when the wallet already reflects the mutation (an added token is
\* present, a removed token is absent while the callback runs); the number of
\* notifications of an operation matches the mutations it made
C16_NotificationPerMutation ==
    op.kind \in {"mint", "send", "sendAmount", "receive", "receiveAmount"} =>
    LET tokens == wallets[op.wallet]
        n == Notifs(log)
    IN  /\ Len(tokens) - Len(op.walletAtStart)
             = CountEv("token_added") - CountEv("token_removed")
        /\ op.pc \in NotifyPcs =>
              /\ Len(n) >= 1
              /\ log[Len(log)] = n[Len(n)]
              /\ n[Len(n)].ev = "token_added" => hasToken(tokens, n[Len(n)].token)
              /\ n[Len(n)].ev = "token_removed" => ~hasToken(tokens, n[Len(n)].token)

\* C17: a sendAmount that splits a single token (change returned) triggers
\* exactly one state-change notification, of type token_replaced, naming two
\* token ids of which one is the original token
C17_SplitNotifiesTokenReplaced ==
    (op.kind = "sendAmount" /\ op.pc = "done"
        /\ Len(op.selection.tokens) = 1 /\ op.selection.requiresSplit) =>
    LET n == Notifs(log)
    IN  /\ Len(n) = 1
        /\ n[1].ev = "token_replaced"
        /\ n[1].token = op.selection.tokens[1].id
        /\ n[1].out = sp.changeTokenId

\* what the call record holds for a token consumed whole through splitExact,
\* from the submission of its burn to the proof of its mint
ExactSegment(t, out) ==
    <<Event("burn_submit", t, 0), Event("burn_proof", t, 0),
      Event("onTokenBurned", t, 0), Event("token_removed", t, 0),
      Event("onTokenBurned_done", t, 0),
      Event("mint_submit", t, out), Event("mint_proof", t, out)>>

SegLen == 7

\* C18: in a multi-token sendAmount the selected tokens are processed one
\* after another in selection order, all but the last through splitExact: for
\* each token the burn is confirmed, then the token is removed and one
\* token_removed notification for it alone is awaited, then its mint is
\* confirmed, and only then is the burn of the next token submitted; a
\* transfer that consumes n tokens without a split emits exactly n
\* token_removed notifications
C18_MultiTokenOneByOne ==
    (op.kind = "sendAmount" /\ Len(op.selection.tokens) >= 2) =>
    LET sel == op.selection.tokens
        n == Len(sel)
        last == SegLen * (op.idx - 1)
    IN  /\ op.idx \in 1..n
        /\ \A j \in 1..(op.idx - 1) :
              /\ Len(log) >= SegLen * j
              /\ SubSeq(log, SegLen * (j - 1) + 1, SegLen * j)
                    = ExactSegment(sel[j].id, log[SegLen * j].out)
        /\ Len(log) > last
        /\ log[last + 1] = Event("burn_submit", sel[op.idx].id, 0)
        /\ \A k \in (last + 1)..Len(log) :
              \/ log[k].token = sel[op.idx].id
              \/ log[k] = Event("token_added", sp.changeTokenId, 0)
        /\ op.idx < n => sp.kind = "splitExact"
        /\ CountEv("burn_submit") = op.idx
        /\ Len(wallets[op.wallet])
             = Len(op.walletAtStart) - CountEv("token_removed")
                 + CountEv("token_added")
        /\ (op.pc = "done" /\ ~op.selection.requiresSplit) =>
              Notifs(log) = [j \in 1..n |-> Event("token_removed", sel[j].id, 0)]

\* two tokens consumed whole, one after the other, and the call has returned
C18_Witness ==
    /\ op.kind = "sendAmount" /\ op.pc = "done"
    /\ Len(op.selection.tokens) = 2
    /\ ~op.selection.requiresSplit
    /\ CountEv("token_removed") = 2

\* Wallet.removeToken applied for every id of a sequence of ids, in order
RECURSIVE RemoveAll(_, _)
RemoveAll(tokens, ids) ==
    IF ids = <<>> THEN tokens
    ELSE RemoveAll(removeToken(tokens, Head(ids)), Tail(ids))

\* C19: after a successful sendAmount(wallet, coin, amount) the sender's total
\* balance of the coin is lower than before the call by exactly amount: the
\* consumed entries are gone and, when a split was performed, one change
\* entry is added whose balance is the split token's balance - splitAmount
C19_BalanceDropsByAmount ==
    (op.kind = "sendAmount" /\ op.pc = "done") =>
    LET sel == op.selection
        n == Len(sel.tokens)
        ids == [j \in 1..n |-> sel.tokens[j].id]
        rest == RemoveAll(op.walletAtStart, ids)
        tokens == wallets[op.wallet]
    IN  /\ BalanceOf(tokens, op.coin)
             = BalanceOf(op.walletAtStart, op.coin) - op.amount
        /\ IF sel.requiresSplit
           THEN /\ Len(tokens) = Len(rest) + 1
                /\ SubSeq(tokens, 1, Len(rest)) = rest
                /\ tokens[Len(tokens)].id = sp.changeTokenId
                /\ ~hasToken(op.walletAtStart, sp.changeTokenId)
                /\ getCoinBalance(tokens[Len(tokens)], op.coin)
                     = getCoinBalance(sel.tokens[n], op.coin) - sel.splitAmount
           ELSE tokens = rest

\* a split has returned and the change entry is in the wallet
C19_Witness ==
    /\ op.kind = "sendAmount" /\ op.pc = "done"
    /\ op.selection.requiresSplit
    /\ hasToken(wallets[op.wallet], sp.changeTokenId)
    /\ op.amount < BalanceOf(op.walletAtStart, op.coin)

\* C20: a successful sendAmount reports exactly the requested amount in every
\* shape (single-token exact, single-token split, multi-token); a multi-token
\* result is a 'multi_split' envelope with one sub-payload per consumed token,
\* in consumption order, whose totalAmount equals result.sent and the sum of
\* the sub-payload amounts; tokensUsed is the number of selected entries
C20_ResultReportsAmount ==
    (op.kind = "sendAmount" /\ op.pc = "done") =>
    LET sel == op.selection
        n == Len(sel.tokens)
        payload == op.result.recipientPayload
        subs == payload.payloads
        part(j) == IF j = n /\ sel.requiresSplit THEN sel.splitAmount
                   ELSE getCoinBalance(sel.tokens[j], op.coin)
        minted(j) == IF j = n THEN sp.recipientTokenId ELSE log[SegLen * j].out
    IN  /\ op.result.sent = op.amount
        /\ op.result.tokensUsed = n
        /\ op.result.splitPerformed = sel.requiresSplit
        /\ payload \in outbox
        /\ payload.coinId = op.coin
        /\ IF n = 1
           THEN /\ payload.type = "split_mint"
                /\ payload.amount = op.amount
                /\ payload.tx.tokenId = sp.recipientTokenId
           ELSE /\ payload.type = "multi_split"
                /\ Len(subs) = n
                /\ payload.amount = op.result.sent
                /\ SumSeq([j \in 1..n |-> subs[j].amount]) = payload.amount
                /\ \A j \in 1..n :
                      /\ subs[j].type = "split_mint"
                      /\ subs[j].amount = part(j)
                      /\ subs[j].tx.tokenId = minted(j)
                      /\ subs[j].tx.coins = CoinData(op.coin, part(j))

\* a multi-token sendAmount with a split of its last token has returned
C20_Witness ==
    /\ op.kind = "sendAmount" /\ op.pc = "done"
    /\ op.result.recipientPayload.type = "multi_split"
    /\ Len(op.result.recipientPayload.payloads) = 2
    /\ op.result.splitPerformed

\* the (sub-)payloads of a sendAmount payload as the sender wrote them
PayloadsOf(msg) == IF msg.type = "multi_split" THEN msg.payloads ELSE <<msg>>

\* C21: when the intended recipient calls receiveAmount on the payload of a
\* successful sendAmount, one token is added per (sub-)payload, the tokens
\* are returned in payload order, and the recipient's balance of the coin
\* rises by exactly the sent amount
C21_ReceiveAmountAddsSent ==
    (op.kind = "receiveAmount" /\ op.pc = "done"
        /\ \A i \in 1..Len(PayloadsOf(op.input)) :
              PayloadsOf(op.input)[i].tx.recipient
                = AddressOf(PublicKey(IdentityOf(op.wallet)))) =>
    LET subs == PayloadsOf(op.input)
        k == Len(subs)
        tokens == wallets[op.wallet]
        before == Len(op.walletAtStart)
    IN  /\ Len(tokens) = before + k
        /\ SubSeq(tokens, 1, before) = op.walletAtStart
        /\ \A i \in 1..k :
              /\ tokens[before + i].id = subs[i].tx.tokenId
              /\ tokens[before + i].coins = subs[i].tx.coins
              /\ tokens[before + i].identityId = IdentityOf(op.wallet)
        /\ op.received = [i \in 1..k |-> subs[i].tx.tokenId]
        /\ BalanceOf(tokens, op.input.coinId)
             = BalanceOf(op.walletAtStart, op.input.coinId) + op.input.amount

\* the recipient has received both tokens of a multi-token payload
C21_Witness ==
    /\ op.kind = "receiveAmount" /\ op.pc = "done"
    /\ op.input.type = "multi_split"
    /\ Len(op.received) = 2
    /\ op.input.payloads[1].tx.recipient
         = AddressOf(PublicKey(IdentityOf(op.wallet)))

\* the operations of the client that touch the network
NetworkOps == {"mint", "send", "sendAmount", "receive", "getTokenStatus"}

\* C22: every client operation that touches the network (mint, send,
\* sendAmount, receive, getTokenStatus), called with no trust base
\* configured, fails with the trust-base configuration error before any
\* commitment is submitted to the ledger and without changing the wallet
C22_TrustBaseCheckedFirst ==
    (op.kind \in NetworkOps /\ ~op.trustBaseAtStart) =>
    /\ op.pc = "failed"
    /\ op.error = "Trust base not configured"
    /\ log = <<>>
    /\ wallets[op.wallet] = op.walletAtStart

\* the burn of the splitter invocation in progress has its inclusion proof
BurnConfirmedInSplit == sp.state \in {"BurnConfirmed", "MintsSubmitted", "Materialized"}

\* every mint commitment of the splitter invocation has its inclusion proof
AllMintsConfirmed == \A k \in 1..sp.nMints : MintOutput(sp, k) \in ledger.minted

\* C23: a split is atomic with respect to the ledger: when split or splitExact
\* has ended, either the burn and all of its mints are confirmed or none of
\* them is; no terminal state has the source token burned and a replacement
\* token not minted
C23_SplitAtomic ==
    (op.kind = "sendAmount" /\ sp.kind # "none" /\ op.pc \in {"done", "failed"}) =>
    /\ BurnConfirmedInSplit <=> AllMintsConfirmed
    /\ ~BurnConfirmedInSplit =>
          \A k \in 1..sp.nMints : MintOutput(sp, k) \notin ledger.minted

\* C24: when the burned-token callback (with the state-change notification it
\* awaits) fails, the split is aborted: split / splitExact fail with that
\* error, no mint commitment is submitted afterwards and no change token is
\* added to the wallet
C24_CallbackFailureAborts ==
    (op.kind = "sendAmount" /\ op.error = "State change callback failed"
        /\ sp.state # "Materialized") =>
    /\ op.pc = "failed"
    /\ sp.state = "BurnConfirmed"
    /\ log[Len(log)] = Event("token_removed", sp.token.id, 0)
    /\ \A k \in 1..sp.nMints :
          /\ MintOutput(sp, k) \notin ledger.minted
          /\ \A j \in 1..Len(log) : log[j].ev = "mint_submit" =>
                                      log[j].out # MintOutput(sp, k)
    /\ CountEv("token_added") = 0
    /\ ~hasToken(wallets[op.wallet], sp.changeTokenId)

\* a split aborted by the failure of its burned-token callback
C24_Witness ==
    /\ op.kind = "sendAmount" /\ op.pc = "failed"
    /\ op.error = "State change callback failed"
    /\ sp.kind = "split" /\ sp.state = "BurnConfirmed"


\* the error with which waitForInclusionProof ends when the polling bound of
\* AbortSignal.timeout is exhausted; the burn wait and the mint waits share it
ProofTimeoutError == "TimeoutError"

\* C25: a failure raised after burn confirmation is reported with an error
\* that no failure before burn confirmation has: the error of the burn-proof
\* timeout, raised before the burn is confirmed, is never the error of a
\* sendAmount that failed with the burn confirmed
C25_PostBurnErrorDistinct ==
    (op.kind = "sendAmount" /\ op.pc = "failed" /\ sp.kind # "none"
        /\ BurnConfirmedInSplit)
    => op.error # ProofTimeoutError


----------------------------------------------------------------------------
(* Properties of the wallet's identities, checked under SpecId *)

MintSubmitted(k) ==
    \E i \in 1..Len(log) :
        log[i] = Event("mint_submit", sp.token.id, MintOutput(sp, k))

BurnProofTimedOut ==
    /\ op.kind = "sendAmount" /\ op.pc = "failed"
    /\ sp.kind # "none" /\ sp.state = "BurnSubmitted"
    /\ StateOf(sp.token) \in ledger.burnAccepted
    /\ op.error # "Burn commitment failed"

----------------------------------------------------------------------------
(* Further properties of the selector, checked under SpecSel *)

\* length of the longest prefix of the balance-sorted entries s whose sum
\* stays below amount
LongestPrefixBelow(s, amount) ==
    CHOOSE j \in 0..Len(s) :
        /\ SumSeq(Balances(SubSeq(s, 1, j))) < amount
        /\ \A m \in (j + 1)..Len(s) :
              SumSeq(Balances(SubSeq(s, 1, m))) >= amount

ShortestPrefixCovering(s, amount) ==
    CHOOSE j \in 1..Len(s) :
        /\ SumSeq(Balances(SubSeq(s, 1, j))) >= amount
        /\ \A m \in 1..(j - 1) : SumSeq(Balances(SubSeq(s, 1, m))) < amount

\* C33: when no single entry has balance >= amount and the total suffices,
\* the selection is the shortest prefix of the entries sorted ascending by
\* balance whose sum is >= amount; when the sum equals amount there is no
\* split, otherwise only the last selected entry is split, with splitAmount =
\* amount - (sum of the entries before it) and changeAmount = its balance -
\* splitAmount; the 'could not select sufficient tokens' failure does not occur
C33_ShortestCoveringPrefix ==
    /\ op.kind = "select" =>
          op.error # "Unexpected: could not select sufficient tokens"
    /\ (/\ op.kind = "select" /\ op.amount > 0
        /\ findSmallestSufficient(SortedConsidered(op), op.amount) = 0
        /\ SumSeq(Balances(SortedConsidered(op))) >= op.amount) =>
       LET sorted == SortedConsidered(op)
           j == ShortestPrefixCovering(sorted, op.amount)
           sum == SumSeq(Balances(SubSeq(sorted, 1, j)))
           sel == op.selection
       IN  /\ op.pc = "done"
           /\ sel.tokens = Entries(SubSeq(sorted, 1, j))
           /\ sel.requiresSplit <=> sum # op.amount
           /\ sel.requiresSplit =>
                 /\ sel.splitAmount = op.amount - (sum - sorted[j].balance)
                 /\ sel.changeAmount = sorted[j].balance - sel.splitAmount
                 /\ \A m \in 1..j : sorted[m].balance <= sorted[j].balance

\* three entries needed, the last of them split
C33_Witness ==
    /\ op.kind = "select" /\ op.pc = "done"
    /\ findSmallestSufficient(SortedConsidered(op), op.amount) = 0
    /\ Len(op.selection.tokens) = 3
    /\ op.selection.requiresSplit
    /\ op.selection.changeAmount > 0
    /\ Len(SortedConsidered(op)) = 3


----------------------------------------------------------------------------
(* Termination, checked under SpecLive *)

\* a step that ends a wait for an inclusion proof does not put the waited-for
\* commitment back into submission, and nothing the aggregator accepted or
\* confirmed is taken back
NoResubmission ==
    /\ ledger.burnAccepted \subseteq ledger'.burnAccepted
    /\ ledger.burnConfirmed \subseteq ledger'.burnConfirmed
    /\ ledger.minted \subseteq ledger'.minted
    /\ op.pc = "burn_wait" => op'.pc # "burn_resp"
    /\ op.pc = "transfer_wait" => op'.pc # "transfer_resp"
    /\ (op.pc = "mint_wait" /\ op'.pc = "mint_resp") =>
          (op.kind = "sendAmount" /\ sp'.mintIdx = sp.mintIdx + 1)

----------------------------------------------------------------------------
(* Interleaved sends, checked under SpecRace *)

\* a call is suspended between its selection and the confirmation of its
\* first burn
SuspendedBeforeBurnConfirmed ==
    /\ suspended.op.kind = "sendAmount"
    /\ suspended.op.pc \in {"burn_resp", "burn_wait"}
    /\ suspended.op.idx = 1

\* C35: the library enforces no mutual exclusion between sends: while one
\* sendAmount is suspended between its selection and the confirmation of its
\* burn, the wallet still lists what it selected, a second sendAmount on the
\* wallet can start, and with the same amount it selects the same entries
C35_NoMutualExclusion ==
    (/\ SuspendedBeforeBurnConfirmed
     /\ Finished /\ opCount < MaxOps
     /\ wallets[suspended.op.wallet] = suspended.op.walletAtStart
     /\ nextId + IdsNeeded(suspended.op.selection) - 1 <= MaxIds) =>
    /\ selectTokensForAmount(wallets[suspended.op.wallet], suspended.op.coin,
                             suspended.op.amount, NoId).sel
          = suspended.op.selection
    /\ ENABLED SendAmountStart(suspended.op.wallet, suspended.op.coin,
                               suspended.op.amount, suspended.op.recipientKey,
                               NoId)

\* both calls have submitted a burn commitment for the same token entry
C35_Witness ==
    /\ SuspendedBeforeBurnConfirmed
    /\ op.kind = "sendAmount" /\ op.pc \in {"burn_resp", "burn_wait"}
    /\ sp.token = suspended.sp.token
    /\ log = <<Event("burn_submit", sp.token.id, 0)>>
    /\ suspended.log = <<Event("burn_submit", sp.token.id, 0)>>
    /\ hasToken(wallets[op.wallet], sp.token.id)


----------------------------------------------------------------------------
(* The selection handed to the splitter, checked under Spec *)

\* the errors with which split and splitExact refuse their arguments
SplitterArgumentErrors ==
    {"Use splitExact() when sending the full balance",
     "Token has no balance for this coin ID"}

----------------------------------------------------------------------------
(* Ownership of the tokens sent, checked under SpecMulti *)

\* C37: every token that sendAmount submits for burn is owned
\* (TokenEntry.identityId) by the identity whose signing service authorizes
\* the burn and to which the change token is assigned, also when
\* options.identityId is omitted and the wallet holds tokens of several
\* identities
C37_BurnsOwnTokens ==
    (op.kind = "sendAmount" /\ sp.kind # "none") =>
        sp.token.identityId = op.identityId


----------------------------------------------------------------------------
(* Failure of a multi-token sendAmount, checked under Spec *)

\* a sendAmount over several selected entries has failed at its k-th entry
FailedAtToken(k) ==
    /\ op.kind = "sendAmount" /\ op.pc = "failed"
    /\ Len(op.selection.tokens) >= 2
    /\ sp.kind # "none"
    /\ op.idx = k

\* ids of the first m selected entries
SelectedIds(m) == [j \in 1..m |-> op.selection.tokens[j].id]

\* no message handed to a caller carries a payload the failed call produced
PayloadsNotReturned ==
    /\ op.result = NoResult
    /\ \A m \in outbox : \A i \in 1..Len(PayloadsOf(m)) :
          \A j \in 1..Len(op.payloads) :
              PayloadsOf(m)[i].tx.tokenId # op.payloads[j].tx.tokenId

\* C38 as stated: when a multi-token sendAmount fails while processing its
\* k-th selected token, exactly the k-1 tokens before it are removed from the
\* wallet, the balance has dropped by their sum and no change token is added
C38_OnlyEarlierTokensGone ==
    \A k \in 1..MaxIds :
        FailedAtToken(k) =>
            /\ wallets[op.wallet]
                 = RemoveAll(op.walletAtStart, SelectedIds(k - 1))
            /\ CountEv("token_removed") = k - 1
            /\ CountEv("token_added") = 0
            /\ PayloadsNotReturned

\* what the code leaves behind instead: the k-1 tokens already burned and
\* re-minted stay removed, each with its token_removed notification
\* delivered, and the payloads produced for them are not returned; the k-th
\* token is removed as well when its own burn was confirmed before the
\* failure, and the change token is in the wallet when the failure is that of
\* the change token's notification
NoRollback ==
    \A k \in 1..MaxIds :
        FailedAtToken(k) =>
        LET burned == IF BurnConfirmedInSplit THEN k ELSE k - 1
            rest == RemoveAll(op.walletAtStart, SelectedIds(burned))
            change == IF sp.state = "Materialized" /\ sp.kind = "split"
                      THEN <<ChangeEntry(sp, op.coin, op.identityId)>>
                      ELSE <<>>
            gone == [j \in 1..burned |->
                        getCoinBalance(op.selection.tokens[j], op.coin)]
        IN  /\ wallets[op.wallet] = rest \o change
            /\ CountEv("token_removed") = burned
            /\ CountEv("onTokenBurned_done") >= k - 1
            /\ CountEv("token_added") = Len(change)
            /\ Len(op.payloads) >= k - 1
            /\ PayloadsNotReturned
            /\ BalanceOf(wallets[op.wallet], op.coin)
                 = BalanceOf(op.walletAtStart, op.coin) - SumSeq(gone)
                     + BalanceOf(change, op.coin)

\* the second selected token's burn was rejected after the first token was
\* burned and re-minted for the recipient
FailedAtSecondBurn ==
    /\ FailedAtToken(2)
    /\ op.error = "Burn commitment failed"
    /\ Len(op.payloads) = 1
    /\ ~hasToken(wallets[op.wallet], op.selection.tokens[1].id)
    /\ hasToken(wallets[op.wallet], op.selection.tokens[2].id)


----------------------------------------------------------------------------
(* Other coins of a consumed token, checked under Spec *)

----------------------------------------------------------------------------
(* Owners of the token entries, checked under SpecId *)

\* C40: in every reachable wallet state each token entry's identityId names an
\* identity present in the wallet; removing an identity leaves no token
\* entries owned by it
C40_OwnersPresent ==
    \A w \in Wallets : \A i \in 1..Len(wallets[w]) :
        wallets[w][i].identityId \in Identities(w)

=============================================================================
